---- MODULE Spec2Model ----
(***************************************************************************)
(* Swarm control server (src/swarm/contorl_server): WsServer, the          *)
(* CommandGateway, the RelayManager, the RelayConnection and the           *)
(* FleetOrchestrator, as a state machine whose steps are the tasks that    *)
(* run on the server's strands.                                            *)
(*                                                                         *)
(* The io_context is run by one thread, so a                               *)
(* boost::asio::dispatch onto an idle strand runs the task at once, inside *)
(* the calling task, while boost::asio::post defers it.  One action of the *)
(* model is therefore one completion handler together with everything it   *)
(* dispatches: a relay handler that calls notify_status runs               *)
(* RelayManager::handle_status, CommandGateway::publish_relay_status and   *)
(* WsServer::send inside the same step.                                    *)
(*                                                                         *)
(* The loaded configuration is part of the state (RelayManager::relays_),  *)
(* so each specification starts from the configuration it studies.         *)
(***************************************************************************)
EXTENDS Integers, Sequences, FiniteSets, TLC

(***************************************************************************)
(* Bounds of the model.                                                    *)
(***************************************************************************)
MaxSessions == 2

MaxGoals == 2

MaxOps == 1

MaxWrites == 2

MaxStrand == 3

MaxQueue == 2

(* threads that call the FleetOrchestrator at the same time *)
MaxThreads == 2

(* FleetOrchestrator calls of a run that studies the orchestrator alone *)
MaxCalls == 3

MaxClears == 1

(* assignments without keep_history in a run that fills the history *)
MaxPlain == 1

(* envelopes passed to the sessions while their write path is followed *)
MaxPassed == 4

(***************************************************************************)
(* Loaded configurations (ControlServerConfig::relays): relay id -> cubes, *)
(* in config order.  "ZZZ" is a cube id no relay lists.                    *)
(***************************************************************************)
ConfigOneRelay == [r1 |-> <<"A01", "A02">>]

ConfigTwoRelays == [r1 |-> <<"A01">>, r2 |-> <<"A02">>]

SessionIds == 1..MaxSessions

ThreadIds == 1..MaxThreads

Range(seq) == {seq[i] : i \in 1..Len(seq)}

(* RelayConnectionState *)
Stopped == "Stopped"

Connecting == "Connecting"

Connected == "Connected"

(* kDefaultStreams *)
kDefaultStreams == {"relay_status", "cube_update", "fleet_state", "log"}

FilteredTypes == {"relay_status", "cube_update", "fleet_state", "log"}

(***************************************************************************)
(* JSON documents (nlohmann::json), by type tag.                           *)
(***************************************************************************)
JNull == [t |-> "null"]

JStr(s) == [t |-> "string", s |-> s]

JInt(n) == [t |-> "int", n |-> n]

JBool(b) == [t |-> "bool", b |-> b]

JArr(a) == [t |-> "array", a |-> a]

JObj(o) == [t |-> "object", o |-> o]

EmptyObj == [t |-> "object", o |-> <<>>]

is_string(j) == j.t = "string"

is_array(j) == j.t = "array"

is_object(j) == j.t = "object"

is_boolean(j) == j.t = "bool"

is_number(j) == j.t \in {"int", "float"}

is_number_integer(j) == j.t = "int"

(* basic_json::contains(key): false for anything that is not an object *)
contains(j, key) == is_object(j) /\ key \in DOMAIN j.o

(* basic_json::value(key, default) throws type_error 306 on a non-object   *)
(* and type_error 302 when the stored value does not convert to the        *)
(* default's type; a missing key yields the default.                       *)
value_throws_string(j, key) ==
    \/ ~is_object(j)
    \/ (key \in DOMAIN j.o /\ ~is_string(j.o[key]))

value_string(j, key, default) ==
    IF contains(j, key) THEN j.o[key].s ELSE default

value_throws_bool(j, key) ==
    \/ ~is_object(j)
    \/ (key \in DOMAIN j.o /\ ~is_boolean(j.o[key]))

value_bool(j, key, default) ==
    IF contains(j, key) THEN j.o[key].b ELSE default

(* arithmetic get<int>/get<double> accepts numbers and booleans *)
value_throws_number(j, key) ==
    \/ ~is_object(j)
    \/ (key \in DOMAIN j.o /\ ~(is_number(j.o[key]) \/ is_boolean(j.o[key])))

value_number(j, key, default) ==
    IF contains(j, key)
    THEN (IF is_boolean(j.o[key]) THEN (IF j.o[key].b THEN 1 ELSE 0) ELSE j.o[key].n)
    ELSE default

value_json(j, key, default) ==
    IF contains(j, key) THEN j.o[key] ELSE default

(* the string elements of a JSON array, in order (the is_string loops) *)
RECURSIVE string_items(_)
string_items(a) ==
    IF a = <<>> THEN <<>>
    ELSE (IF is_string(Head(a)) THEN <<Head(a).s>> ELSE <<>>) \o string_items(Tail(a))

(***************************************************************************)
(* util::load_config.  The file is what ifs >> doc left: NoFile when it    *)
(* cannot be opened, BadJson when it does not parse, else the document.    *)
(* The result is a configuration (status "ok") or the exception that left  *)
(* load_config: "config_error" from throw_config_error, "json_exception"   *)
(* from nlohmann::json (at() of a missing key, get<T>() or value() of a    *)
(* value of the wrong type).                                               *)
(***************************************************************************)
NoFile == [t |-> "no file"]

BadJson == [t |-> "bad json"]

ConfigError(message) == [status |-> "config_error", message |-> message]

JsonException == [status |-> "json_exception", message |-> ""]

(* get<std::uint16_t>() of a number or boolean: static_cast to 16 bits *)
get_uint16(j) == (IF is_boolean(j) THEN (IF j.b THEN 1 ELSE 0) ELSE j.n) % 65536

(* get<std::uint32_t>() of a number or boolean: static_cast to 32 bits,    *)
(* written by 16-bit halves                                                *)
get_uint32(j) ==
    LET n == IF is_boolean(j) THEN (IF j.b THEN 1 ELSE 0) ELSE j.n
    IN (n % 65536) + 65536 * ((n \div 65536) % 65536)

(* get<double>() of a number or boolean *)
get_double(j) == IF is_boolean(j) THEN (IF j.b THEN 1 ELSE 0) ELSE j.n

get_throws_number(j) == ~(is_number(j) \/ is_boolean(j))

(* the loop over one relay's cubes (lines 76-85): the ids seen so far, or  *)
(* the exception                                                           *)
RECURSIVE load_cubes(_, _)
load_cubes(cubes, cube_ids) ==
    IF cubes = <<>> THEN [status |-> "ok", cube_ids |-> cube_ids]
    ELSE IF ~is_string(Head(cubes)) THEN JsonException
    ELSE IF Len(Head(cubes).s) # 3 THEN ConfigError("cube id must be 3 characters")
    ELSE IF Head(cubes).s \in cube_ids THEN ConfigError("cube id assigned to multiple relays")
    ELSE load_cubes(Tail(cubes), cube_ids \cup {Head(cubes).s})

(* the loop over the relays (lines 61-92): config.relays, or the exception *)
RECURSIVE load_relays(_, _, _, _)
load_relays(relays, relay_ids, cube_ids, loaded) ==
    IF relays = <<>> THEN [status |-> "ok", relays |-> loaded]
    ELSE LET relay_json == Head(relays)
         IN IF value_throws_string(relay_json, "id") THEN JsonException
            ELSE IF value_string(relay_json, "id", "") = "" THEN ConfigError("relay entry missing id")
            ELSE IF value_throws_string(relay_json, "uri") THEN JsonException
            ELSE IF value_string(relay_json, "uri", "") = "" THEN ConfigError("relay missing uri")
            ELSE IF ~contains(relay_json, "cubes") THEN JsonException
            ELSE IF ~is_array(relay_json.o.cubes) \/ relay_json.o.cubes.a = <<>>
            THEN ConfigError("relay must define at least one cube")
            ELSE LET cubes == load_cubes(relay_json.o.cubes.a, cube_ids)
                     id == relay_json.o.id.s
                 IN IF cubes.status # "ok" THEN cubes
                    ELSE IF id \in relay_ids THEN ConfigError("duplicate relay id")
                    ELSE load_relays(Tail(relays), relay_ids \cup {id}, cubes.cube_ids,
                                     Append(loaded, [id |-> id, uri |-> relay_json.o.uri.s,
                                                     cubes |-> [i \in DOMAIN relay_json.o.cubes.a |->
                                                                  relay_json.o.cubes.a[i].s]]))

(* FieldConfig's default member initializers *)
DefaultField == [top_left |-> [x |-> 45, y |-> 45], bottom_right |-> [x |-> 455, y |-> 455]]

(* parse_point (lines 100-112) *)
parse_point(obj, key) ==
    LET point_json == obj.o[key]
    IN IF ~is_object(point_json) THEN ConfigError("field point must be an object")
       ELSE IF ~contains(point_json, "x") \/ ~contains(point_json, "y")
       THEN ConfigError("field point must contain x and y")
       ELSE IF get_throws_number(point_json.o.x) \/ get_throws_number(point_json.o.y)
       THEN JsonException
       ELSE [status |-> "ok", point |-> [x |-> get_double(point_json.o.x),
                                         y |-> get_double(point_json.o.y)]]

(* the field block (lines 94-125): config.field, or the exception *)
load_field(doc) ==
    IF ~contains(doc, "field") THEN [status |-> "ok", field |-> DefaultField]
    ELSE LET field_json == doc.o.field
         IN IF ~is_object(field_json) THEN ConfigError("field must be an object")
            ELSE LET top_left == IF contains(field_json, "top_left")
                                 THEN parse_point(field_json, "top_left")
                                 ELSE [status |-> "ok", point |-> DefaultField.top_left]
                     bottom_right == IF contains(field_json, "bottom_right")
                                     THEN parse_point(field_json, "bottom_right")
                                     ELSE [status |-> "ok", point |-> DefaultField.bottom_right]
                 IN IF top_left.status # "ok" THEN top_left
                    ELSE IF bottom_right.status # "ok" THEN bottom_right
                    ELSE [status |-> "ok", field |-> [top_left |-> top_left.point,
                                                      bottom_right |-> bottom_right.point]]

load_config(file) ==
    IF file = NoFile THEN ConfigError("unable to open file")
    ELSE IF file = BadJson THEN ConfigError("invalid JSON")
    ELSE IF ~contains(file, "ui") THEN ConfigError("missing ui settings")
    ELSE LET ui == file.o.ui
         IN IF value_throws_string(ui, "host") THEN JsonException
            ELSE IF ~contains(ui, "port") THEN ConfigError("ui.port is required")
            ELSE IF get_throws_number(ui.o.port) THEN JsonException
            ELSE IF get_uint16(ui.o.port) = 0 THEN ConfigError("ui.port must be > 0")
            ELSE IF ~contains(file, "relays") THEN ConfigError("missing relays list")
            ELSE IF ~is_array(file.o.relays) \/ file.o.relays.a = <<>>
            THEN ConfigError("relays must be a non-empty array")
            ELSE LET relays == load_relays(file.o.relays.a, {}, {}, <<>>)
                     field == load_field(file)
                 IN IF relays.status # "ok" THEN relays
                    ELSE IF field.status # "ok" THEN field
                    ELSE IF \/ field.field.bottom_right.x <= field.field.top_left.x
                            \/ field.field.bottom_right.y <= field.field.top_left.y
                    THEN ConfigError("field.bottom_right must be greater than top_left")
                    ELSE IF /\ contains(file, "relay_reconnect_ms")
                            /\ get_throws_number(file.o.relay_reconnect_ms)
                    THEN JsonException
                    ELSE [status |-> "ok",
                          ui |-> [host |-> value_string(ui, "host", "0.0.0.0"),
                                  port |-> get_uint16(ui.o.port)],
                          relays |-> relays.relays,
                          field |-> field.field,
                          relay_reconnect_ms |->
                              IF contains(file, "relay_reconnect_ms")
                              THEN get_uint32(file.o.relay_reconnect_ms) ELSE 2000]

VARIABLES
    acceptor_open,      \* WsServer::acceptor_ is open
    sessions_,          \* WsServer::sessions_ (ids in the table)
    next_session_id_,   \* WsServer::next_session_id_
    session_io,         \* WsSession: the asynchronous operation it waits on
    session_strand,     \* WsSession::strand_: enqueue tasks posted and not yet run, in order
    send_queue_,        \* WsSession::send_queue_
    ws_write_in_progress_, \* WsSession::write_in_progress_
    session_write,      \* WsSession: async_write operations in flight
    session_calls,      \* how often the open and the close handler ran, per session
    passed,             \* envelopes passed to WsSession::enqueue, per session, in call order
    written,            \* messages given to async_write, per session, in order
    running,            \* io_context: the handler each thread that runs it is inside
    subscriptions_,     \* CommandGateway::subscriptions_
    relay_status_,      \* CommandGateway::relay_status_
    groups_,            \* CommandGateway::groups_
    cubes_,             \* CubeRegistry: cube_id -> CubeState
    goal_counter_,      \* FleetOrchestrator::goal_counter_
    active_goals_,      \* FleetOrchestrator::active_goals_
    history_,           \* FleetOrchestrator::history_
    pending,            \* assign_goal calls that hold their id and wait for mutex_, per thread
    journal,            \* FleetOrchestrator: ids generated, assignments stored, clears, in order
    config_file,        \* the file load_config is given
    config_,            \* what load_config left: NotLoaded, the configuration or the exception
    relays_,            \* RelayManager::relays_: relay id -> RelayConfig::cubes
    cube_to_relay_,     \* RelayManager::cube_to_relay_
    relay_states_,      \* RelayManager::relay_states_
    state_,             \* RelayConnection::state_
    stopping_,          \* RelayConnection::stopping_
    outbound_queue_,    \* RelayConnection::outbound_queue_
    write_in_progress_, \* RelayConnection::write_in_progress_
    ops,                \* RelayConnection: asynchronous operations in flight, per kind
    strand,             \* RelayConnection::strand_: tasks posted and not yet run, in order
    link,               \* RelayConnection::websocket_: "none", "open" or "closing"
    enqueued,           \* envelopes the last task passed to WsSession::enqueue, per session
    handed,             \* payloads the last task passed to RelayConnection::send, in order
    notified,           \* status callbacks the last task made, in order
    wrote,              \* payloads the last task gave to async_write on its relay's socket
    writing,            \* per relay, the payload the async_write in flight was given
    task                \* the task that ran last: its handler, session and reply bookkeeping

handler_vars ==
        <<acceptor_open, sessions_, next_session_id_, session_io,
          session_strand, send_queue_, ws_write_in_progress_, session_write,
          session_calls, passed, written, subscriptions_,
          relay_status_, groups_, cubes_, goal_counter_, active_goals_,
          history_, pending, journal,
          config_file, config_,
          relays_, cube_to_relay_, relay_states_, state_, stopping_,
          outbound_queue_, write_in_progress_, ops, strand, link,
          enqueued, handed, notified, wrote, writing, task>>

vars == <<handler_vars, running>>

(***************************************************************************)
(* CubeRegistry.  Its source is not part of the tree; it is modelled from  *)
(* the design: apply_update merges the fields a patch carries and reports  *)
(* the new state iff an observable field changed; entries are created on   *)
(* first update and never removed.                                         *)
(***************************************************************************)
NoGoal == <<>>

None == [some |-> FALSE]

Some(v) == [some |-> TRUE, v |-> v]

LedOff == [r |-> 0, g |-> 0, b |-> 0]

NoPose == [x |-> 0, y |-> 0, deg |-> 0, on_mat |-> FALSE]

NewCube(cube_id) ==
    [cube_id |-> cube_id, relay_id |-> "", battery |-> -1, goal_id |-> NoGoal,
     has_position |-> FALSE, position |-> NoPose, led |-> LedOff]

(* CubeRegistry::Update with every optional field absent *)
Update(cube_id, relay_id) ==
    [cube_id |-> cube_id, relay_id |-> relay_id, position |-> None,
     battery |-> None, led |-> None, goal_id |-> None]

merge_update(old, u) ==
    [old EXCEPT
       !.relay_id = IF u.relay_id # "" THEN u.relay_id ELSE @,
       !.position = IF u.position.some THEN u.position.v ELSE @,
       !.has_position = @ \/ u.position.some,
       !.battery = IF u.battery.some THEN u.battery.v ELSE @,
       !.led = IF u.led.some THEN u.led.v ELSE @,
       !.goal_id = IF u.goal_id.some THEN u.goal_id.v ELSE @]

(* apply_update: [reg: the registry after, changed: whether a diff results, state] *)
apply_update(reg, u) ==
    LET old == IF u.cube_id \in DOMAIN reg THEN reg[u.cube_id] ELSE NewCube(u.cube_id)
        new == merge_update(old, u)
    IN [reg |-> [c \in DOMAIN reg \cup {u.cube_id} |-> IF c = u.cube_id THEN new ELSE reg[c]],
        changed |-> \/ new.position # old.position
                    \/ new.has_position # old.has_position
                    \/ new.battery # old.battery
                    \/ new.led # old.led
                    \/ new.goal_id # old.goal_id,
        state |-> new]

(* apply_updates: the changed states in input order *)
RECURSIVE apply_updates(_, _)
apply_updates(reg, updates) ==
    IF updates = <<>> THEN [reg |-> reg, changed |-> <<>>]
    ELSE LET one == apply_update(reg, Head(updates))
             rest == apply_updates(one.reg, Tail(updates))
         IN [reg |-> rest.reg,
             changed |-> (IF one.changed THEN <<one.state>> ELSE <<>>) \o rest.changed]

(***************************************************************************)
(* FleetOrchestrator                                                       *)
(***************************************************************************)
(* "goal-" + std::to_string(counter) *)
GoalId(counter) == <<"goal-", counter>>

(* a thread that is not inside assign_goal *)
NoCall == [busy |-> FALSE]

(* FleetOrchestrator::max_history_ *)
max_history_ == 64

(* what assign_goal builds from a request and the counter it drew *)
GoalAssignment(counter, request) ==
    [goal_id |-> GoalId(counter), cube_id |-> Head(request.targets), pose |-> request.pose,
     priority |-> request.priority]

(* the block under mutex_: the assignment replaces the cube's, and joins   *)
(* the history when the request keeps history, the oldest entry leaving    *)
(* once there are more than max_history_                                   *)
store_assignment_unbounded(active, history, assignment, keep_history) ==
    [active |-> [c \in DOMAIN active \cup {assignment.cube_id} |->
                   IF c = assignment.cube_id THEN assignment ELSE active[c]],
     history |-> IF keep_history THEN Append(history, assignment) ELSE history]

store_assignment(active, history, assignment, keep_history) ==
    LET pushed == Append(history, assignment)
    IN [active |-> [c \in DOMAIN active \cup {assignment.cube_id} |->
                      IF c = assignment.cube_id THEN assignment ELSE active[c]],
        history |-> IF ~keep_history THEN history
                    ELSE IF Len(pushed) > max_history_ THEN Tail(pushed)
                    ELSE pushed]

(* an entry of the journal *)
Event(op, assignment, keep_history) ==
    [op |-> op, assignment |-> assignment, keep_history |-> keep_history]

assign_goal_last_target(active, history, counter, request) ==
    LET assignment == [GoalAssignment(counter + 1, request) EXCEPT
                          !.cube_id = request.targets[Len(request.targets)]]
        stored == store_assignment(active, history, assignment, request.keep_history)
    IN [goal_id |-> assignment.goal_id,
        counter |-> counter + 1,
        active |-> stored.active,
        history |-> stored.history,
        journal |-> << Event("generate", assignment, request.keep_history),
                       Event("store", assignment, request.keep_history) >>]

(* assign_goal for a request with at least one target, called by one       *)
(* thread with no other call under way: the counter is incremented and the *)
(* assignment stored for targets.front() only                              *)
assign_goal(active, history, counter, request) ==
    LET assignment == GoalAssignment(counter + 1, request)
        stored == store_assignment(active, history, assignment, request.keep_history)
    IN [goal_id |-> assignment.goal_id,
        counter |-> counter + 1,
        active |-> stored.active,
        history |-> stored.history,
        journal |-> << Event("generate", assignment, request.keep_history),
                       Event("store", assignment, request.keep_history) >>]

(* FleetOrchestrator::snapshot *)
fleet_snapshot(active, reg) ==
    [k |-> "fleet_state",
     tasks_in_queue |-> Cardinality(DOMAIN active),
     active_goals |-> {active[c] : c \in DOMAIN active},
     warnings |-> {c \in DOMAIN reg : ~reg[c].has_position}]

(***************************************************************************)
(* CommandGateway: envelopes and publication.  Timestamps are left out.    *)
(* An envelope names its type, the request it answers, its code (error     *)
(* code, relay status or log level), its message text with the cube or     *)
(* relay the text names, the goal id of an ack's details, the cube states  *)
(* of a cube_update and the body of a snapshot or fleet_state.             *)
(***************************************************************************)
NoBody == [k |-> "none"]

Envelope(type) ==
    [type |-> type, request_id |-> "", code |-> "", text |-> "", name |-> "",
     goal_id |-> NoGoal, updates |-> <<>>, body |-> NoBody]

NoOut == [s \in SessionIds |-> <<>>]

(* a session whose handlers have not run *)
NoCalls == [open |-> 0, close |-> 0]

(* WsServer::send: a no-op for an id that is not in sessions_; otherwise   *)
(* WsSession::enqueue                                                      *)
ws_send(out, session_id, envelope) ==
    IF session_id \in sessions_
    THEN [out EXCEPT ![session_id] = Append(@, envelope)]
    ELSE out

stream_enabled_all(session_id, stream) == TRUE

stream_enabled(session_id, stream) ==
    IF session_id \notin DOMAIN subscriptions_ THEN TRUE
    ELSE \/ subscriptions_[session_id].streams = {}
         \/ stream \in subscriptions_[session_id].streams

cube_allowed_all(session_id, cube_id) == TRUE

cube_allowed(session_id, cube_id) ==
    IF session_id \notin DOMAIN subscriptions_ THEN TRUE
    ELSE IF subscriptions_[session_id].cube_filter = {} THEN TRUE
    ELSE cube_id \in subscriptions_[session_id].cube_filter

(* the loop "for session in subscriptions_: if stream_enabled: send" *)
publish_stream(out, stream, envelope) ==
    [s \in SessionIds |->
        IF s \in DOMAIN subscriptions_ /\ stream_enabled(s, stream)
        THEN ws_send(out, s, envelope)[s]
        ELSE out[s]]

publish_relay_status(out, event) ==
    publish_stream(out, "relay_status",
        [Envelope("relay_status") EXCEPT
            !.name = event.relay_id, !.code = event.status, !.text = event.message])

publish_log(out, level, message, relay_id) ==
    publish_stream(out, "log",
        [Envelope("log") EXCEPT !.code = level, !.text = message, !.name = relay_id])

publish_fleet_state(out, active, reg) ==
    publish_stream(out, "fleet_state",
        [Envelope("fleet_state") EXCEPT !.body = fleet_snapshot(active, reg)])

RECURSIVE cube_batch(_, _)
cube_batch(session_id, updates) ==
    IF updates = <<>> THEN <<>>
    ELSE (IF cube_allowed(session_id, Head(updates).cube_id) THEN <<Head(updates)>> ELSE <<>>)
         \o cube_batch(session_id, Tail(updates))

publish_cube_updates_twice(out, updates) ==
    IF updates = <<>> THEN out
    ELSE [s \in SessionIds |->
            IF /\ s \in DOMAIN subscriptions_
               /\ stream_enabled(s, "cube_update")
               /\ cube_batch(s, updates) # <<>>
            THEN ws_send(out, s, [Envelope("cube_update") EXCEPT
                                     !.updates = cube_batch(s, updates \o updates)])[s]
            ELSE out[s]]

publish_cube_updates(out, updates) ==
    IF updates = <<>> THEN out
    ELSE [s \in SessionIds |->
            IF /\ s \in DOMAIN subscriptions_
               /\ stream_enabled(s, "cube_update")
               /\ cube_batch(s, updates) # <<>>
            THEN ws_send(out, s, [Envelope("cube_update") EXCEPT
                                     !.updates = cube_batch(s, updates)])[s]
            ELSE out[s]]

send_ack(out, session_id, request_id, goal_id) ==
    ws_send(out, session_id,
        [Envelope("ack") EXCEPT !.request_id = request_id, !.goal_id = goal_id])

send_error(out, session_id, request_id, code, text, name) ==
    ws_send(out, session_id,
        [Envelope("error") EXCEPT
            !.request_id = request_id, !.code = code, !.text = text, !.name = name])

send_snapshot(out, session_id, include_history, reg) ==
    ws_send(out, session_id,
        [Envelope("snapshot") EXCEPT
            !.body = [k |-> "snapshot", relays |-> relay_status_, cubes |-> reg,
                      history |-> include_history]])

publish_field_info(out, session_id) ==
    ws_send(out, session_id, Envelope("field_info"))

(***************************************************************************)
(* RelayManager                                                            *)
(***************************************************************************)
to_status_string(state) ==
    CASE state = Stopped -> "stopped"
      [] state = Connecting -> "connecting"
      [] state = Connected -> "connected"
      [] OTHER -> "unknown"

(* a relay-bound envelope: {type, payload: {cmd | info, target, params, notify}} *)
Payload(type, what, target, params, notify) ==
    [type |-> type, what |-> what, target |-> target, params |-> params, notify |-> notify]

NoError == [text |-> "", name |-> ""]

SendFailed(text, name) == [ok |-> FALSE, error |-> [text |-> text, name |-> name], handed |-> <<>>]

ensure_target_available(cube_id) == cube_id \in DOMAIN cube_to_relay_

(* send_to_cube: [ok, error, handed: the (relay, payload) given to connection->send] *)
send_to_cube(cube_id, payload) ==
    IF ~ensure_target_available(cube_id)
    THEN SendFailed("cube is not registered", cube_id)
    ELSE LET relay_id == cube_to_relay_[cube_id]
         IN IF relay_id \notin DOMAIN relays_
            THEN SendFailed("relay not registered", relay_id)
            ELSE IF relay_states_[relay_id] # Connected
            THEN SendFailed("relay not connected", relay_id)
            ELSE [ok |-> TRUE, error |-> NoError,
                  handed |-> <<[relay |-> relay_id, payload |-> payload]>>]

(* the loop "for target in targets: if (!send_to_cube(...)) return false" *)
RECURSIVE send_each_no_abort(_, _, _)
send_each_no_abort(targets, cmd, params) ==
    IF targets = <<>> THEN [ok |-> TRUE, error |-> NoError, handed |-> <<>>]
    ELSE LET one == send_to_cube(Head(targets), Payload("command", cmd, Head(targets), params, FALSE))
             rest == send_each_no_abort(Tail(targets), cmd, params)
         IN [ok |-> one.ok /\ rest.ok,
             error |-> IF one.ok THEN rest.error ELSE one.error,
             handed |-> one.handed \o rest.handed]

RECURSIVE send_each(_, _, _)
send_each(targets, cmd, params) ==
    IF targets = <<>> THEN [ok |-> TRUE, error |-> NoError, handed |-> <<>>]
    ELSE LET one == send_to_cube(Head(targets), Payload("command", cmd, Head(targets), params, FALSE))
         IN IF ~one.ok THEN one
            ELSE LET rest == send_each(Tail(targets), cmd, params)
                 IN [ok |-> rest.ok, error |-> rest.error, handed |-> one.handed \o rest.handed]

send_manual_drive(command) ==
    IF command.targets = <<>>
    THEN SendFailed("manual_drive requires at least one target", "")
    ELSE send_each(command.targets, "move", <<command.left, command.right>>)

send_led_command(command) ==
    IF command.targets = <<>>
    THEN SendFailed("set_led requires at least one target", "")
    ELSE send_each(command.targets, "led", <<command.r, command.g, command.b>>)

RECURSIVE bootstrap_relay_battery_first(_, _)
bootstrap_relay_battery_first(relay_id, cubes) ==
    IF cubes = <<>> THEN <<>>
    ELSE << [relay |-> relay_id, payload |-> Payload("query", "battery", Head(cubes), <<>>, FALSE)],
            [relay |-> relay_id, payload |-> Payload("command", "connect", Head(cubes), <<>>, FALSE)],
            [relay |-> relay_id, payload |-> Payload("query", "position", Head(cubes), <<>>, TRUE)] >>
         \o bootstrap_relay_battery_first(relay_id, Tail(cubes))

(* bootstrap_relay: connect, position subscription, battery query per cube *)
RECURSIVE bootstrap_relay(_, _)
bootstrap_relay(relay_id, cubes) ==
    IF cubes = <<>> THEN <<>>
    ELSE << [relay |-> relay_id, payload |-> Payload("command", "connect", Head(cubes), <<>>, FALSE)],
            [relay |-> relay_id, payload |-> Payload("query", "position", Head(cubes), <<>>, TRUE)],
            [relay |-> relay_id, payload |-> Payload("query", "battery", Head(cubes), <<>>, FALSE)] >>
         \o bootstrap_relay(relay_id, Tail(cubes))

(* RelayManager::handle_status with CommandGateway::publish_relay_status as *)
(* the status callback: the manager's view, the gateway's cache, the        *)
(* envelopes and, on Connected, the bootstrap                               *)
handle_status(relay_id, state, message) ==
    LET event == [relay_id |-> relay_id, status |-> to_status_string(state), message |-> message]
    IN /\ relay_states_' = [relay_states_ EXCEPT ![relay_id] = state]
       /\ relay_status_' = [r \in DOMAIN relay_status_ \cup {relay_id} |->
                              IF r = relay_id THEN event ELSE relay_status_[r]]
       /\ enqueued' = publish_relay_status(NoOut, event)
       /\ handed' = IF state = Connected /\ relay_id \in DOMAIN relays_
                    THEN bootstrap_relay(relay_id, relays_[relay_id])
                    ELSE <<>>
       /\ notified' = <<[relay |-> relay_id, state |-> state, message |-> message]>>

(* a connection task that makes no status callback *)
no_status ==
    /\ UNCHANGED <<relay_states_, relay_status_>>
    /\ enqueued' = NoOut
    /\ handed' = <<>>
    /\ notified' = <<>>

(***************************************************************************)
(* CommandGateway: command handlers.  A handler yields what it leaves      *)
(* behind: the envelopes it sent per session, the tables it wrote and the  *)
(* payloads it gave to relays; threw marks an exception that escaped it,   *)
(* which always happens before its first effect.                           *)
(***************************************************************************)
Done(out) ==
    [threw |-> FALSE, out |-> out, subs |-> subscriptions_, groups |-> groups_,
     reg |-> cubes_, counter |-> goal_counter_, active |-> active_goals_,
     history |-> history_, journal |-> <<>>, handed |-> <<>>]

Threw == [Done(NoOut) EXCEPT !.threw = TRUE]

Put(f, key, val) == [k \in DOMAIN f \cup {key} |-> IF k = key THEN val ELSE f[k]]

handle_subscribe_merging(payload, request_id, session_id) ==
    LET wanted == IF contains(payload, "streams") /\ is_array(payload.o.streams)
                  THEN Range(string_items(payload.o.streams.a))
                  ELSE {}
        had == session_id \in DOMAIN subscriptions_
        streams == IF wanted = {}
                   THEN (IF had THEN subscriptions_[session_id].streams ELSE kDefaultStreams)
                   ELSE wanted
        cube_filter == (IF contains(payload, "cube_filter") /\ is_array(payload.o.cube_filter)
                        THEN Range(string_items(payload.o.cube_filter.a))
                        ELSE {})
                       \cup (IF had THEN subscriptions_[session_id].cube_filter ELSE {})
    IN IF value_throws_bool(payload, "include_history") THEN Threw
       ELSE LET acked == publish_field_info(send_ack(NoOut, session_id, request_id, NoGoal), session_id)
                out == IF value_bool(payload, "include_history", FALSE)
                       THEN send_snapshot(acked, session_id, TRUE, cubes_)
                       ELSE acked
            IN [Done(out) EXCEPT
                  !.subs = Put(subscriptions_, session_id,
                               [streams |-> streams, cube_filter |-> cube_filter])]

handle_subscribe(payload, request_id, session_id) ==
    LET wanted == IF contains(payload, "streams") /\ is_array(payload.o.streams)
                  THEN Range(string_items(payload.o.streams.a))
                  ELSE {}
        streams == IF wanted = {} THEN kDefaultStreams ELSE wanted
        cube_filter == IF contains(payload, "cube_filter") /\ is_array(payload.o.cube_filter)
                       THEN Range(string_items(payload.o.cube_filter.a))
                       ELSE {}
    IN IF value_throws_bool(payload, "include_history") THEN Threw
       ELSE LET acked == publish_field_info(send_ack(NoOut, session_id, request_id, NoGoal), session_id)
                out == IF value_bool(payload, "include_history", FALSE)
                       THEN send_snapshot(acked, session_id, TRUE, cubes_)
                       ELSE acked
            IN [Done(out) EXCEPT
                  !.subs = Put(subscriptions_, session_id,
                               [streams |-> streams, cube_filter |-> cube_filter])]

handle_manual_drive(payload, request_id, session_id) ==
    IF ~contains(payload, "targets") \/ ~is_array(payload.o.targets)
    THEN Done(send_error(NoOut, session_id, request_id, "invalid_payload",
                         "manual_drive.targets must be array", ""))
    ELSE IF value_throws_number(payload, "left") \/ value_throws_number(payload, "right")
    THEN Threw
    ELSE LET command == [targets |-> string_items(payload.o.targets.a),
                         left |-> value_number(payload, "left", 0),
                         right |-> value_number(payload, "right", 0)]
             sent == send_manual_drive(command)
         IN IF ~sent.ok
            THEN [Done(send_error(NoOut, session_id, request_id, "relay_error",
                                  sent.error.text, sent.error.name))
                    EXCEPT !.handed = sent.handed]
            ELSE [Done(send_ack(NoOut, session_id, request_id, NoGoal))
                    EXCEPT !.handed = sent.handed]

RECURSIVE led_updates(_, _)
led_updates(targets, led) ==
    IF targets = <<>> THEN <<>>
    ELSE <<[Update(Head(targets), "") EXCEPT !.led = Some(led)]>> \o led_updates(Tail(targets), led)

handle_set_led_unconditional(payload, request_id, session_id) ==
    IF ~contains(payload, "targets") \/ ~is_array(payload.o.targets)
    THEN Done(send_error(NoOut, session_id, request_id, "invalid_payload",
                         "set_led.targets must be array", ""))
    ELSE LET color == value_json(payload, "color", EmptyObj)
         IN IF ~is_object(color)
            THEN Done(send_error(NoOut, session_id, request_id, "invalid_payload",
                                 "color must be object", ""))
            ELSE IF \/ value_throws_number(color, "r")
                    \/ value_throws_number(color, "g")
                    \/ value_throws_number(color, "b")
            THEN Threw
            ELSE LET command == [targets |-> string_items(payload.o.targets.a),
                                 r |-> value_number(color, "r", 0),
                                 g |-> value_number(color, "g", 0),
                                 b |-> value_number(color, "b", 0)]
                     sent == send_led_command(command)
                     applied == apply_updates(cubes_,
                                    led_updates(command.targets,
                                                [r |-> command.r, g |-> command.g, b |-> command.b]))
                 IN IF ~sent.ok
                    THEN [Done(send_error(NoOut, session_id, request_id, "relay_error",
                                          sent.error.text, sent.error.name))
                            EXCEPT !.handed = sent.handed, !.reg = applied.reg]
                    ELSE [Done(send_ack(publish_cube_updates(NoOut, applied.changed),
                                        session_id, request_id, NoGoal))
                            EXCEPT !.handed = sent.handed, !.reg = applied.reg]

handle_set_led(payload, request_id, session_id) ==
    IF ~contains(payload, "targets") \/ ~is_array(payload.o.targets)
    THEN Done(send_error(NoOut, session_id, request_id, "invalid_payload",
                         "set_led.targets must be array", ""))
    ELSE LET color == value_json(payload, "color", EmptyObj)
         IN IF ~is_object(color)
            THEN Done(send_error(NoOut, session_id, request_id, "invalid_payload",
                                 "color must be object", ""))
            ELSE IF \/ value_throws_number(color, "r")
                    \/ value_throws_number(color, "g")
                    \/ value_throws_number(color, "b")
            THEN Threw
            ELSE LET command == [targets |-> string_items(payload.o.targets.a),
                                 r |-> value_number(color, "r", 0),
                                 g |-> value_number(color, "g", 0),
                                 b |-> value_number(color, "b", 0)]
                     sent == send_led_command(command)
                     applied == apply_updates(cubes_,
                                    led_updates(command.targets,
                                                [r |-> command.r, g |-> command.g, b |-> command.b]))
                 IN IF ~sent.ok
                    THEN [Done(send_error(NoOut, session_id, request_id, "relay_error",
                                          sent.error.text, sent.error.name))
                            EXCEPT !.handed = sent.handed]
                    ELSE [Done(send_ack(publish_cube_updates(NoOut, applied.changed),
                                        session_id, request_id, NoGoal))
                            EXCEPT !.handed = sent.handed, !.reg = applied.reg]

goal_updates_skip_first(targets, goal_id) ==
    [k \in 1..(Len(targets) - 1) |->
        [Update(targets[k + 1], "") EXCEPT !.goal_id = Some(goal_id)]]

RECURSIVE goal_updates(_, _)
goal_updates(targets, goal_id) ==
    IF targets = <<>> THEN <<>>
    ELSE <<[Update(Head(targets), "") EXCEPT !.goal_id = Some(goal_id)]>>
         \o goal_updates(Tail(targets), goal_id)

handle_set_goal(payload, request_id, session_id) ==
    IF \/ ~contains(payload, "targets")
       \/ ~is_array(payload.o.targets)
       \/ payload.o.targets.a = <<>>
    THEN Done(send_error(NoOut, session_id, request_id, "invalid_payload",
                         "set_goal.targets must be non-empty array", ""))
    ELSE IF ~contains(payload, "goal") \/ ~is_object(payload.o.goal)
    THEN Done(send_error(NoOut, session_id, request_id, "invalid_payload",
                         "goal must be object", ""))
    ELSE LET goal == payload.o.goal
         IN IF \/ value_throws_number(goal, "x")
               \/ value_throws_number(goal, "y")
               \/ value_throws_number(goal, "angle")
               \/ value_throws_number(payload, "priority")
               \/ value_throws_bool(payload, "keep_history")
            THEN Threw
            ELSE LET request == [targets |-> string_items(payload.o.targets.a),
                                 pose |-> [x |-> value_number(goal, "x", 0),
                                           y |-> value_number(goal, "y", 0),
                                           angle |-> IF contains(goal, "angle")
                                                     THEN Some(value_number(goal, "angle", 0))
                                                     ELSE None],
                                 priority |-> value_number(payload, "priority", 0),
                                 keep_history |-> value_bool(payload, "keep_history", FALSE)]
                 IN IF request.targets = <<>>
                    THEN Done(send_error(NoOut, session_id, request_id, "invalid_payload",
                                         "GoalRequest.targets must not be empty", ""))
                    ELSE LET assigned == assign_goal(active_goals_, history_, goal_counter_, request)
                             applied == apply_updates(cubes_,
                                            goal_updates(request.targets, assigned.goal_id))
                             updated == publish_cube_updates(NoOut, applied.changed)
                             fleet == publish_fleet_state(updated, assigned.active, applied.reg)
                         IN [Done(send_ack(fleet, session_id, request_id, assigned.goal_id))
                               EXCEPT !.reg = applied.reg,
                                      !.counter = assigned.counter,
                                      !.active = assigned.active,
                                      !.history = assigned.history,
                                      !.journal = assigned.journal]

handle_set_group(payload, request_id, session_id) ==
    IF value_throws_string(payload, "group_id") THEN Threw
    ELSE IF value_string(payload, "group_id", "") = ""
    THEN Done(send_error(NoOut, session_id, request_id, "invalid_payload",
                         "group_id is required", ""))
    ELSE IF ~contains(payload, "members") \/ ~is_array(payload.o.members)
    THEN Done(send_error(NoOut, session_id, request_id, "invalid_payload",
                         "members must be array", ""))
    ELSE [Done(send_ack(NoOut, session_id, request_id, NoGoal))
            EXCEPT !.groups = Put(groups_, value_string(payload, "group_id", ""),
                                  string_items(payload.o.members.a))]

handle_request_snapshot(payload, request_id, session_id) ==
    IF value_throws_bool(payload, "include_history") THEN Threw
    ELSE Done(send_ack(send_snapshot(NoOut, session_id,
                                     value_bool(payload, "include_history", FALSE), cubes_),
                       session_id, request_id, NoGoal))

handle_message(message, session_id) ==
    IF ~contains(message, "type") \/ ~is_string(message.o.type)
    THEN Done(send_error(NoOut, session_id, "", "invalid_payload",
                         "message.type must be string", ""))
    ELSE IF value_throws_string(message, "request_id") THEN Threw
    ELSE LET type == message.o.type.s
             request_id == value_string(message, "request_id", "")
             payload == value_json(message, "payload", EmptyObj)
         IN CASE type = "subscribe" -> handle_subscribe(payload, request_id, session_id)
              [] type = "manual_drive" -> handle_manual_drive(payload, request_id, session_id)
              [] type = "set_led" -> handle_set_led(payload, request_id, session_id)
              [] type = "set_goal" -> handle_set_goal(payload, request_id, session_id)
              [] type = "set_group" -> handle_set_group(payload, request_id, session_id)
              [] type = "request_snapshot" -> handle_request_snapshot(payload, request_id, session_id)
              [] OTHER -> Done(send_error(NoOut, session_id, request_id, "invalid_payload",
                                          "unknown command type", type))

(* WsServer::handle_session_message: parse the text, call the message      *)
(* handler, catch and log whatever either throws                           *)
handle_session_message(session_id, frame) ==
    IF ~frame.valid THEN Threw ELSE handle_message(frame.doc, session_id)

(* RelayManager::handle_message: telemetry and log ingest.  A throw (a     *)
(* value() on a field of the wrong type) is caught by on_read.             *)
relay_pose(position) ==
    [x |-> IF contains(position, "x") /\ is_number(position.o.x) THEN position.o.x.n ELSE NoPose.x,
     y |-> IF contains(position, "y") /\ is_number(position.o.y) THEN position.o.y.n ELSE NoPose.y,
     deg |-> IF contains(position, "angle") /\ is_number(position.o.angle)
             THEN position.o.angle.n ELSE NoPose.deg,
     on_mat |-> IF contains(position, "on_mat") /\ is_boolean(position.o.on_mat)
                THEN position.o.on_mat.b ELSE NoPose.on_mat]

relay_pose_has_value(position) ==
    \/ contains(position, "x") /\ is_number(position.o.x)
    \/ contains(position, "y") /\ is_number(position.o.y)
    \/ contains(position, "angle") /\ is_number(position.o.angle)
    \/ contains(position, "on_mat") /\ is_boolean(position.o.on_mat)

relay_led(led) ==
    [r |-> IF contains(led, "r") /\ is_number_integer(led.o.r) THEN led.o.r.n ELSE LedOff.r,
     g |-> IF contains(led, "g") /\ is_number_integer(led.o.g) THEN led.o.g.n ELSE LedOff.g,
     b |-> IF contains(led, "b") /\ is_number_integer(led.o.b) THEN led.o.b.n ELSE LedOff.b]

relay_led_has_value(led) ==
    \/ contains(led, "r") /\ is_number_integer(led.o.r)
    \/ contains(led, "g") /\ is_number_integer(led.o.g)
    \/ contains(led, "b") /\ is_number_integer(led.o.b)

relay_handle_message(relay_id, message) ==
    IF ~contains(message, "type") \/ ~is_string(message.o.type) THEN Done(NoOut)
    ELSE LET type == message.o.type.s
             has_payload == contains(message, "payload")
             payload == value_json(message, "payload", JNull)
         IN IF type = "response" /\ has_payload /\ is_object(payload)
            THEN IF value_throws_string(payload, "info") THEN Threw
                 ELSE LET info == value_string(payload, "info", "")
                      IN IF info \notin {"position", "battery"} THEN Done(NoOut)
                         ELSE IF value_throws_string(payload, "target") THEN Threw
                         ELSE IF value_string(payload, "target", "") = "" THEN Done(NoOut)
                         ELSE LET base == Update(value_string(payload, "target", ""), relay_id)
                                  position == value_json(payload, "position", JNull)
                                  led == value_json(payload, "led", JNull)
                                  level == value_json(payload, "battery_level", JNull)
                                  update ==
                                    IF info = "position"
                                    THEN [base EXCEPT
                                            !.position = IF is_object(position) /\ relay_pose_has_value(position)
                                                         THEN Some(relay_pose(position)) ELSE None,
                                            !.led = IF is_object(led) /\ relay_led_has_value(led)
                                                    THEN Some(relay_led(led)) ELSE None]
                                    ELSE [base EXCEPT
                                            !.battery = IF is_number_integer(level)
                                                        THEN Some(level.n) ELSE None]
                                  applied == apply_updates(cubes_, <<update>>)
                              IN [Done(publish_cube_updates(NoOut, applied.changed))
                                    EXCEPT !.reg = applied.reg]
            ELSE IF type = "system"
            THEN Done(publish_log(NoOut, "info", "relay system message", relay_id))
            ELSE IF type = "error"
            THEN IF has_payload /\ contains(payload, "message")
                    /\ value_throws_string(payload, "message")
                 THEN Threw
                 ELSE Done(publish_log(NoOut, "error",
                                       IF has_payload /\ contains(payload, "message")
                                       THEN value_string(payload, "message", "") ELSE "",
                                       relay_id))
            ELSE Done(NoOut)

(***************************************************************************)
(* RelayConnection.  ops counts the asynchronous operations whose          *)
(* completion handler has not run; strand holds the tasks that are ready   *)
(* to run in order: the lambdas posted by send() and the handlers of       *)
(* operations cancelled by closing the socket.                             *)
(***************************************************************************)
OpKinds == {"resolve", "connect", "handshake", "read", "write", "timer"}

SocketOps == <<"connect", "handshake", "read", "write">>

NoOps == [k \in OpKinds |-> 0]

NoPayload == Payload("", "", "", <<>>, FALSE)

SendTask(payload) == [k |-> "send", op |-> "", payload |-> payload]

AbortTask(op) == [k |-> "abort", op |-> op, payload |-> NoPayload]

RECURSIVE Repeat(_, _)
Repeat(x, n) == IF n = 0 THEN <<>> ELSE <<x>> \o Repeat(x, n - 1)

(* next_layer().close(): every socket operation in flight completes with   *)
(* operation_aborted; its handler is queued on the strand                  *)
RECURSIVE abort_tasks(_, _)
abort_tasks(o, kinds) ==
    IF kinds = <<>> THEN <<>>
    ELSE Repeat(AbortTask(Head(kinds)), o[Head(kinds)]) \o abort_tasks(o, Tail(kinds))

closed_ops(o) == [k \in OpKinds |-> IF k \in Range(SocketOps) THEN 0 ELSE o[k]]

(* the lambdas RelayConnection::send posts for the payloads just handed to *)
(* relay x; tx = FALSE leaves the transmit path of the connections out     *)
RECURSIVE posted(_, _, _)
posted(x, h, tx) ==
    IF ~tx \/ h = <<>> THEN <<>>
    ELSE (IF Head(h).relay = x THEN <<SendTask(Head(h).payload)>> ELSE <<>>)
         \o posted(x, Tail(h), tx)

(* the fields of connection r after a task, with the sends of this task    *)
(* posted behind base, the tasks already waiting                           *)
Conn(r, st, stp, q, wip, o, lk, base, tx, w) ==
    /\ \A k \in OpKinds \ {"write"} : o[k] <= MaxOps
    /\ o["write"] <= MaxWrites
    /\ Len(q) <= MaxQueue
    /\ state_' = [state_ EXCEPT ![r] = st]
    /\ stopping_' = [stopping_ EXCEPT ![r] = stp]
    /\ outbound_queue_' = [outbound_queue_ EXCEPT ![r] = q]
    /\ write_in_progress_' = [write_in_progress_ EXCEPT ![r] = wip]
    /\ ops' = [ops EXCEPT ![r] = o]
    /\ link' = [link EXCEPT ![r] = lk]
    /\ strand' = [x \in DOMAIN relays_ |->
                    (IF x = r THEN base ELSE strand[x]) \o posted(x, handed', tx)]
    /\ \A x \in DOMAIN relays_ : Len(strand'[x]) <= MaxStrand
    /\ wrote' = w
    /\ writing' = IF w # <<>> THEN {x \in writing : x[1] # r} \cup {<<r, w[1]>>}
                  ELSE IF o["write"] = 0 THEN {x \in writing : x[1] # r}
                  ELSE writing

(***************************************************************************)
(* The io_context.  The application runs it on one thread; a thread takes  *)
(* a ready handler of a strand none of the threads is inside, runs it to   *)
(* its end and returns.                                                    *)
(***************************************************************************)
(* an io_context run by two threads *)
IoThreadsPair == {1, 2}

IoThreads == {1}

Idle == [strand |-> <<>>, kind |-> ""]

relay_strand(r) == <<"relay", r>>

(* the WsServer strand; a session hands its events to it *)
ws_strand == <<"ws">>

(* the strand the handlers of a task ran on *)
strand_of(t) == IF t.relay # "" THEN relay_strand(t.relay) ELSE ws_strand

(* the handler of this step has run to its end: the thread that was inside *)
(* it is idle again                                                        *)
Returns ==
    running' = [t \in IoThreads |->
                  IF running[t].strand = strand_of(task') THEN Idle ELSE running[t]]

(* the write path of the sessions, left alone *)
WritePathUnchanged ==
    UNCHANGED <<session_strand, send_queue_, ws_write_in_progress_, session_write,
                passed, written>>

SessionUnchanged == WritePathUnchanged /\ UNCHANGED session_calls /\ Returns

UiUnchanged ==
    /\ UNCHANGED <<acceptor_open, sessions_, next_session_id_, session_io,
                   session_strand, send_queue_, ws_write_in_progress_, session_write,
                   session_calls, passed, written, subscriptions_,
                   groups_, cubes_, goal_counter_, active_goals_, history_, pending, journal,
                   config_file, config_, relays_, cube_to_relay_>>
    /\ Returns

Task(handler) ==
    [handler |-> handler, ok |-> TRUE, session |-> 0, relay |-> "", fault |-> "",
     type |-> "", request_id |-> "", targets |-> <<>>, threw |-> FALSE,
     escaped |-> FALSE]

RelayTask(handler, r, ok) == [Task(handler) EXCEPT !.relay = r, !.ok = ok]

Inc(o, k) == [o EXCEPT ![k] = @ + 1]

Dec(o, k) == [o EXCEPT ![k] = @ - 1]

(***************************************************************************)
(* RelayConnection: one action per task that runs on the strand.  tx says  *)
(* whether the payloads handed to connections in this task are posted.     *)
(***************************************************************************)
do_connect_silent(r, stp, q, wip, o, lk, base, tx) ==
    /\ no_status
    /\ Conn(r, Connecting, stp, q, wip, Inc(o, "resolve"), lk, base, tx, <<>>)

(* do_connect: Connecting, status "resolving", async_resolve *)
do_connect(r, stp, q, wip, o, lk, base, tx) ==
    /\ handle_status(r, Connecting, "resolving")
    /\ Conn(r, Connecting, stp, q, wip, Inc(o, "resolve"), lk, base, tx, <<>>)

error_text(where) ==
    CASE where = "resolve" -> "resolve error"
      [] where = "connect" -> "connect error"
      [] where = "handshake" -> "handshake error"
      [] where = "read" -> "read error"
      [] where = "write" -> "write error"

(* schedule_reconnect: expires_after cancels a wait still pending *)
schedule_reconnect(o) == [o EXCEPT !["timer"] = 1]

(* fail: close the socket, Stopped, status "<where> error", re-arm unless  *)
(* stopping.  o and base are the operations and tasks left by the caller.  *)
fail(r, where, o, base, tx) ==
    /\ handle_status(r, Stopped, error_text(where))
    /\ Conn(r, Stopped, stopping_[r], outbound_queue_[r], write_in_progress_[r],
            IF stopping_[r] THEN closed_ops(o) ELSE schedule_reconnect(closed_ops(o)),
            "none", base \o abort_tasks(o, SocketOps), tx, <<>>)

(* the characters of the relay URIs that configurations use *)
Spelling(uri) ==
    CASE uri = "ws://relay" -> <<"w", "s", ":", "/", "/", "r", "e", "l", "a", "y">>
      [] uri = "ws://h:1/x" -> <<"w", "s", ":", "/", "/", "h", ":", "1", "/", "x">>
      [] uri = "wss://relay" -> <<"w", "s", "s", ":", "/", "/", "r", "e", "l", "a", "y">>
      [] uri = "relay:8765" -> <<"r", "e", "l", "a", "y", ":", "8", "7", "6", "5">>
      [] uri = "w" -> <<"w">>

(* std::string::rfind(prefix, 0) == 0 *)
starts_with(chars, prefix) ==
    Len(chars) >= Len(prefix) /\ SubSeq(chars, 1, Len(prefix)) = prefix

(* std::string::find of a character: its first position, 0 for npos *)
find(chars, ch) ==
    IF \E i \in DOMAIN chars : chars[i] = ch
    THEN CHOOSE i \in DOMAIN chars :
            chars[i] = ch /\ \A j \in 1..(i - 1) : chars[j] # ch
    ELSE 0

InvalidArgument(what) == [threw |-> TRUE, what |-> what]

(* RelayConnection::parse_uri on the characters of the URI *)
parse_uri(uri) ==
    LET ws_prefix == <<"w", "s", ":", "/", "/">>
        wss_prefix == <<"w", "s", "s", ":", "/", "/">>
        secure == ~starts_with(uri, ws_prefix)
        remainder == SubSeq(uri, Len(IF secure THEN wss_prefix ELSE ws_prefix) + 1, Len(uri))
        slash_pos == find(remainder, "/")
        host_port == IF slash_pos = 0 THEN remainder ELSE SubSeq(remainder, 1, slash_pos - 1)
        colon_pos == find(host_port, ":")
    IN IF ~starts_with(uri, ws_prefix) /\ ~starts_with(uri, wss_prefix)
       THEN InvalidArgument("Relay URI must start with ws:// or wss://")
       ELSE IF secure
       THEN InvalidArgument("wss:// relays are not supported yet")
       ELSE [threw |-> FALSE, secure |-> secure,
             target |-> IF slash_pos = 0 THEN <<"/">>
                        ELSE SubSeq(remainder, slash_pos, Len(remainder)),
             host |-> IF colon_pos = 0 THEN host_port
                      ELSE SubSeq(host_port, 1, colon_pos - 1),
             port |-> IF colon_pos = 0 THEN <<"8", "0">>
                      ELSE SubSeq(host_port, colon_pos + 1, Len(host_port))]

(* RelayConnection::options_.uri: the uri of the relay's entry in the      *)
(* loaded configuration                                                    *)
options_uri(r) ==
    LET i == CHOOSE i \in DOMAIN config_.relays : config_.relays[i].id = r
    IN config_.relays[i].uri

(* start: stopping_ is cleared; the task does nothing while Connecting or  *)
(* Connected, otherwise parse_uri and do_connect.  Nothing catches what    *)
(* parse_uri throws.                                                       *)
relay_start(r, tx) ==
    LET parsed == parse_uri(Spelling(options_uri(r)))
        throws == state_[r] \notin {Connecting, Connected} /\ parsed.threw
    IN /\ task' = [RelayTask("start", r, TRUE) EXCEPT !.threw = throws, !.escaped = throws]
       /\ UiUnchanged
       /\ IF state_[r] \in {Connecting, Connected} \/ throws
          THEN /\ no_status
               /\ Conn(r, state_[r], FALSE, outbound_queue_[r], write_in_progress_[r],
                       ops[r], link[r], strand[r], tx, <<>>)
          ELSE do_connect(r, FALSE, outbound_queue_[r], write_in_progress_[r],
                          ops[r], link[r], strand[r], tx)

(* stop: the timer wait is cancelled; an open websocket starts its closing *)
(* handshake, otherwise the socket is closed and its operations aborted    *)
relay_stop(r, tx) ==
    LET o == [ops[r] EXCEPT !["timer"] = 0]
    IN /\ task' = RelayTask("stop", r, TRUE)
       /\ UiUnchanged
       /\ no_status
       /\ IF link[r] = "open"
          THEN Conn(r, Stopped, TRUE, <<>>, write_in_progress_[r], o, "closing", strand[r], tx, <<>>)
          ELSE Conn(r, Stopped, TRUE, <<>>, write_in_progress_[r], closed_ops(o), "none",
                    strand[r] \o abort_tasks(o, SocketOps), tx, <<>>)

(* handle_resolve: boost::asio::async_connect closes the socket before it  *)
(* connects, which aborts what is still in flight on it                    *)
handle_resolve(r, ok, tx) ==
    /\ ops[r]["resolve"] > 0
    /\ task' = RelayTask("handle_resolve", r, ok)
    /\ UiUnchanged
    /\ IF ok
       THEN LET o == Dec(ops[r], "resolve")
            IN /\ no_status
               /\ Conn(r, state_[r], stopping_[r], outbound_queue_[r], write_in_progress_[r],
                       Inc(closed_ops(o), "connect"), link[r],
                       strand[r] \o abort_tasks(o, SocketOps), tx, <<>>)
       ELSE fail(r, "resolve", Dec(ops[r], "resolve"), strand[r], tx)

handle_connect(r, ok, tx) ==
    /\ ops[r]["connect"] > 0
    /\ task' = RelayTask("handle_connect", r, ok)
    /\ UiUnchanged
    /\ IF ok
       THEN /\ no_status
            /\ Conn(r, state_[r], stopping_[r], outbound_queue_[r], write_in_progress_[r],
                    Inc(Dec(ops[r], "connect"), "handshake"), link[r], strand[r], tx, <<>>)
       ELSE fail(r, "connect", Dec(ops[r], "connect"), strand[r], tx)

(* handle_handshake: Connected, status "connected" (the manager bootstraps *)
(* the relay), do_read, and a write if the queue holds a leftover           *)
handle_handshake(r, ok, tx) ==
    /\ ops[r]["handshake"] > 0
    /\ task' = RelayTask("handle_handshake", r, ok)
    /\ UiUnchanged
    /\ IF ok
       THEN LET o == Inc(Dec(ops[r], "handshake"), "read")
            IN /\ handle_status(r, Connected, "connected")
               /\ IF outbound_queue_[r] # <<>>
                  THEN Conn(r, Connected, stopping_[r], outbound_queue_[r], TRUE,
                            Inc(o, "write"), "open", strand[r], tx,
                            <<Head(outbound_queue_[r])>>)
                  ELSE Conn(r, Connected, stopping_[r], outbound_queue_[r],
                            write_in_progress_[r], o, "open", strand[r], tx, <<>>)
       ELSE fail(r, "handshake", Dec(ops[r], "handshake"), strand[r], tx)

relay_on_read_once(r, frame, tx) ==
    LET res == IF frame.valid THEN relay_handle_message(r, frame.doc) ELSE Threw
    IN /\ ops[r]["read"] > 0
       /\ link[r] = "open"
       /\ task' = [RelayTask("relay_on_read", r, TRUE) EXCEPT
                     !.fault = frame.fault, !.threw = res.threw]
       /\ cubes_' = res.reg
       /\ UNCHANGED <<acceptor_open, sessions_, next_session_id_, session_io, subscriptions_,
                      groups_, goal_counter_, active_goals_, history_, pending, journal,
                      config_file, config_, relays_, cube_to_relay_, relay_states_, relay_status_>>
       /\ SessionUnchanged
       /\ enqueued' = res.out
       /\ handed' = <<>>
       /\ notified' = <<>>
       /\ Conn(r, state_[r], stopping_[r], outbound_queue_[r], write_in_progress_[r],
               IF res.threw THEN Dec(ops[r], "read") ELSE ops[r], link[r], strand[r], tx, <<>>)

(* on_read with a message: parse, RelayManager::handle_message, do_read *)
relay_on_read(r, frame, tx) ==
    LET res == IF frame.valid THEN relay_handle_message(r, frame.doc) ELSE Threw
    IN /\ ops[r]["read"] > 0
       /\ link[r] = "open"
       /\ task' = [RelayTask("relay_on_read", r, TRUE) EXCEPT
                     !.fault = frame.fault, !.threw = res.threw]
       /\ cubes_' = res.reg
       /\ UNCHANGED <<acceptor_open, sessions_, next_session_id_, session_io, subscriptions_,
                      groups_, goal_counter_, active_goals_, history_, pending, journal,
                      config_file, config_, relays_, cube_to_relay_, relay_states_, relay_status_>>
       /\ SessionUnchanged
       /\ enqueued' = res.out
       /\ handed' = <<>>
       /\ notified' = <<>>
       /\ Conn(r, state_[r], stopping_[r], outbound_queue_[r], write_in_progress_[r],
               ops[r], link[r], strand[r], tx, <<>>)

(* on_read with websocket::error::closed: a status and nothing else *)
relay_on_read_closed(r, tx) ==
    /\ ops[r]["read"] > 0
    /\ link[r] \in {"open", "closing"}
    /\ task' = RelayTask("relay_on_read_closed", r, FALSE)
    /\ UiUnchanged
    /\ handle_status(r, Stopped, "closed by remote")
    /\ Conn(r, state_[r], stopping_[r], outbound_queue_[r], write_in_progress_[r],
            Dec(ops[r], "read"), "none", strand[r], tx, <<>>)

(* on_read with any other error *)
relay_on_read_error(r, tx) ==
    /\ ops[r]["read"] > 0
    /\ task' = RelayTask("relay_on_read_error", r, FALSE)
    /\ UiUnchanged
    /\ fail(r, "read", Dec(ops[r], "read"), strand[r], tx)

(* what the deque holds where no element was constructed *)
Garbage == Payload("garbage", "", "", <<>>, FALSE)

(* std::deque::pop_front.  On a queue that stop() has emptied it is        *)
(* undefined: the deque is left looking empty, or looking as if it held an *)
(* element.                                                                *)
pop_front(q) == IF q = <<>> THEN {<<>>, <<Garbage>>} ELSE {Tail(q)}

(* the completion lambda of do_send *)
relay_on_write(r, ok, tx) ==
    /\ ops[r]["write"] > 0
    /\ task' = RelayTask("relay_on_write", r, ok)
    /\ UiUnchanged
    /\ IF ok
       THEN \E q \in pop_front(outbound_queue_[r]) :
               /\ link[r] \in {"open", "closing"}
               /\ no_status
               /\ IF q = <<>>
                  THEN Conn(r, state_[r], stopping_[r], q, FALSE, Dec(ops[r], "write"),
                            link[r], strand[r], tx, <<>>)
                  ELSE Conn(r, state_[r], stopping_[r], q, write_in_progress_[r], ops[r],
                            link[r], strand[r], tx, <<Head(q)>>)
       ELSE fail(r, "write", Dec(ops[r], "write"), strand[r], tx)

(* the reconnect timer expires: its handler becomes ready *)
timer_expired(r, tx) ==
    /\ ops[r]["timer"] > 0
    /\ task' = RelayTask("timer_expired", r, TRUE)
    /\ UiUnchanged
    /\ no_status
    /\ Conn(r, state_[r], stopping_[r], outbound_queue_[r], write_in_progress_[r],
            Dec(ops[r], "timer"), link[r],
            Append(strand[r], [k |-> "timer", op |-> "timer", payload |-> NoPayload]), tx, <<>>)

(* the lambda send() posts, with the state test left out *)
send_lambda_any_state(r, payload, rest, tx) ==
    /\ task' = RelayTask("send", r, TRUE)
    /\ no_status
    /\ IF write_in_progress_[r]
       THEN Conn(r, state_[r], stopping_[r], Append(outbound_queue_[r], payload),
                 TRUE, ops[r], link[r], rest, tx, <<>>)
       ELSE Conn(r, state_[r], stopping_[r], Append(outbound_queue_[r], payload),
                 TRUE, Inc(ops[r], "write"), link[r], rest, tx,
                 <<Head(Append(outbound_queue_[r], payload))>>)

(* the lambda send() posts: drop unless Connected, push_back, and do_send  *)
(* unless a write is in progress                                           *)
send_lambda(r, payload, rest, tx) ==
    /\ task' = RelayTask("send", r, state_[r] = Connected)
    /\ no_status
    /\ IF state_[r] # Connected
       THEN Conn(r, state_[r], stopping_[r], outbound_queue_[r],
                 write_in_progress_[r], ops[r], link[r], rest, tx, <<>>)
       ELSE IF write_in_progress_[r]
       THEN Conn(r, state_[r], stopping_[r], Append(outbound_queue_[r], payload),
                 TRUE, ops[r], link[r], rest, tx, <<>>)
       ELSE Conn(r, state_[r], stopping_[r], Append(outbound_queue_[r], payload),
                 TRUE, Inc(ops[r], "write"), link[r], rest, tx,
                 <<Head(Append(outbound_queue_[r], payload))>>)

(* the first ready task of the strand runs: the lambda of send(), the      *)
(* handler of an aborted operation, or the handler of the expired timer    *)
run_strand(r, tx) ==
    /\ strand[r] # <<>>
    /\ LET t == Head(strand[r])
           rest == Tail(strand[r])
       IN CASE t.k = "send" -> send_lambda(r, t.payload, rest, tx)
            [] t.k = "abort" ->
                 /\ task' = RelayTask("aborted", r, FALSE)
                 /\ fail(r, t.op, ops[r], rest, tx)
            [] t.k = "timer" ->
                 /\ task' = RelayTask("on_timer", r, TRUE)
                 /\ IF stopping_[r]
                    THEN /\ no_status
                         /\ Conn(r, state_[r], stopping_[r], outbound_queue_[r],
                                 write_in_progress_[r], ops[r], link[r], rest, tx, <<>>)
                    ELSE do_connect(r, stopping_[r], outbound_queue_[r],
                                    write_in_progress_[r], ops[r], link[r], rest, tx)
    /\ UiUnchanged

(***************************************************************************)
(* WsServer and WsSession.  The open, close and message handlers are the   *)
(* gateway's handle_open, handle_close and handle_message, as the design   *)
(* wires them; the file that installs them is not part of the tree.        *)
(***************************************************************************)
open_handler_(session_id) ==
    [Done(send_snapshot(NoOut, session_id, FALSE, cubes_)) EXCEPT
       !.subs = Put(subscriptions_, session_id,
                    [streams |-> kDefaultStreams, cube_filter |-> {}])]

close_handler_(session_id) ==
    [Done(NoOut) EXCEPT
       !.subs = [k \in DOMAIN subscriptions_ \ {session_id} |-> subscriptions_[k]]]

(* WsSession::enqueue, for every envelope a task passed to it: the lambda  *)
(* that will push it onto send_queue_ is posted to the session's strand    *)
enqueue(out, tx) ==
    /\ session_strand' = [s \in SessionIds |->
                            session_strand[s] \o (IF tx THEN out[s] ELSE <<>>)]
    /\ passed' = [s \in SessionIds |-> passed[s] \o (IF tx THEN out[s] ELSE <<>>)]
    /\ Cardinality({<<s, i>> \in SessionIds \X (1..MaxPassed + 1) :
                        i <= Len(passed'[s])}) <= MaxPassed

(* what a gateway handler left behind, with the connections untouched but  *)
(* for the sends posted to them                                            *)
ApplyGateway(res, tx) ==
    /\ enqueue(res.out, tx)
    /\ Returns
    /\ subscriptions_' = res.subs
    /\ groups_' = res.groups
    /\ cubes_' = res.reg
    /\ goal_counter_' = res.counter
    /\ active_goals_' = res.active
    /\ history_' = res.history
    /\ journal' = journal \o res.journal
    /\ UNCHANGED pending
    /\ enqueued' = res.out
    /\ handed' = res.handed
    /\ notified' = <<>>
    /\ UNCHANGED <<config_file, config_,
                   relay_status_, relays_, cube_to_relay_, relay_states_, state_, stopping_,
                   outbound_queue_, write_in_progress_, ops, link>>
    /\ strand' = [x \in DOMAIN relays_ |-> strand[x] \o posted(x, res.handed, tx)]
    /\ \A x \in DOMAIN relays_ : Len(strand'[x]) <= MaxStrand
    /\ wrote' = <<>>
    /\ UNCHANGED writing

(* the same for a task that leaves the queues of the sessions alone *)
ApplyUi(res, tx) ==
    /\ ApplyGateway(res, tx)
    /\ UNCHANGED <<send_queue_, ws_write_in_progress_, session_write, written>>

SessionTask(handler, s, ok) == [Task(handler) EXCEPT !.session = s, !.ok = ok]

ws_start ==
    /\ ~acceptor_open
    /\ acceptor_open' = TRUE
    /\ task' = Task("ws_start")
    /\ UNCHANGED <<sessions_, next_session_id_, session_io, session_calls>>
    /\ ApplyUi(Done(NoOut), FALSE)

(* stop: close the acceptor, enqueue the "server stopping" log envelope to *)
(* every session of the table, clear the table                             *)
ws_stop ==
    /\ acceptor_open
    /\ acceptor_open' = FALSE
    /\ sessions_' = {}
    /\ task' = Task("ws_stop")
    /\ UNCHANGED <<next_session_id_, session_io, session_calls>>
    /\ ApplyUi(Done([s \in SessionIds |->
                       IF s \in sessions_
                       THEN <<[Envelope("log") EXCEPT !.code = "info", !.text = "server stopping"]>>
                       ELSE <<>>]), FALSE)

(* the completion of async_accept without error *)
do_accept ==
    /\ acceptor_open
    /\ next_session_id_ <= MaxSessions
    /\ sessions_' = sessions_ \cup {next_session_id_}
    /\ next_session_id_' = next_session_id_ + 1
    /\ session_io' = [session_io EXCEPT ![next_session_id_] = "accept"]
    /\ task' = SessionTask("do_accept", next_session_id_, TRUE)
    /\ UNCHANGED <<acceptor_open, session_calls>>
    /\ ApplyUi(Done(NoOut), FALSE)

(* the socket of a session is closed once close_with_error has run *)
socket_closed(s) == session_calls[s].close > 0

(* handle_session_closed: erase the session, call the close handler *)
handle_session_closed(s) ==
    /\ sessions_' = sessions_ \ {s}
    /\ session_calls' = [session_calls EXCEPT ![s].close = @ + 1]
    /\ UNCHANGED <<acceptor_open, next_session_id_>>
    /\ ApplyGateway(close_handler_(s), FALSE)

(* close_with_error from on_accept or on_read: the socket is closed, the   *)
(* read chain ends, handle_session_closed                                  *)
close_with_error(s) ==
    /\ session_io' = [session_io EXCEPT ![s] = "closed"]
    /\ UNCHANGED <<send_queue_, ws_write_in_progress_, session_write, written>>
    /\ handle_session_closed(s)

(* on_accept: after an error close_with_error; otherwise                   *)
(* handle_session_ready and do_read                                        *)
on_accept(s, ok, tx) ==
    /\ session_io[s] = "accept"
    /\ task' = SessionTask("on_accept", s, ok)
    /\ IF ok
       THEN /\ session_io' = [session_io EXCEPT ![s] = "read"]
            /\ session_calls' = [session_calls EXCEPT ![s].open = @ + 1]
            /\ UNCHANGED <<acceptor_open, sessions_, next_session_id_>>
            /\ ApplyUi(open_handler_(s), tx)
       ELSE close_with_error(s)

session_on_accept(s, ok) == on_accept(s, ok, FALSE)

frame_type(frame) ==
    IF frame.valid /\ contains(frame.doc, "type") /\ is_string(frame.doc.o.type)
    THEN frame.doc.o.type.s ELSE ""

frame_request_id(frame) ==
    IF frame.valid /\ contains(frame.doc, "request_id") /\ is_string(frame.doc.o.request_id)
    THEN frame.doc.o.request_id.s ELSE ""

frame_targets(frame) ==
    LET payload == value_json(frame.doc, "payload", EmptyObj)
    IN IF frame.valid /\ contains(payload, "targets") /\ is_array(payload.o.targets)
       THEN string_items(payload.o.targets.a) ELSE <<>>

(* on_read with a text frame: handle_session_message, then do_read.  The  *)
(* read may have completed before an error of the write chain closed the   *)
(* socket; the read that do_read then starts on the closed socket can only *)
(* fail.                                                                   *)
session_on_read(s, frame, tx) ==
    LET res == handle_session_message(s, frame)
    IN /\ session_io[s] = "read"
       /\ res.counter <= MaxGoals
       /\ task' = [SessionTask("on_read", s, TRUE) EXCEPT
                     !.fault = frame.fault, !.type = frame_type(frame),
                     !.request_id = frame_request_id(frame),
                     !.targets = frame_targets(frame), !.threw = res.threw]
       /\ session_io' = [session_io EXCEPT
                           ![s] = IF socket_closed(s) THEN "failing" ELSE @]
       /\ UNCHANGED <<acceptor_open, sessions_, next_session_id_, session_calls>>
       /\ ApplyUi(res, tx)

session_on_read_error(s) ==
    /\ session_io[s] \in {"read", "failing"}
    /\ task' = SessionTask("on_read_error", s, FALSE)
    /\ close_with_error(s)

(* WsSession::do_write on a queue q: nothing to write clears               *)
(* write_in_progress_, otherwise async_write of the front                  *)
do_write(s, q) ==
    /\ send_queue_' = [send_queue_ EXCEPT ![s] = q]
    /\ IF q = <<>>
       THEN /\ ws_write_in_progress_' = [ws_write_in_progress_ EXCEPT ![s] = FALSE]
            /\ UNCHANGED written
       ELSE /\ ws_write_in_progress_' = [ws_write_in_progress_ EXCEPT ![s] = TRUE]
            /\ written' = [written EXCEPT ![s] = Append(@, Head(q))]

(* async_write operations in flight after a task that completed `done` of *)
(* them and went through do_write with queue q                             *)
writes_after(s, done, q) ==
    [session_write EXCEPT ![s] = @ - done + (IF q = <<>> THEN 0 ELSE 1)]

(* an enqueue task that starts a write whether or not one is in progress  *)
session_enqueue_unguarded(s) ==
    LET q == Append(send_queue_[s], Head(session_strand[s]))
    IN /\ session_strand[s] # <<>>
       /\ session_strand' = [session_strand EXCEPT ![s] = Tail(@)]
       /\ task' = SessionTask("enqueue", s, TRUE)
       /\ IF FALSE
          THEN /\ send_queue_' = [send_queue_ EXCEPT ![s] = q]
               /\ UNCHANGED <<ws_write_in_progress_, session_write, written>>
          ELSE /\ do_write(s, q)
               /\ session_write' = writes_after(s, 0, q)
       /\ UNCHANGED <<acceptor_open, sessions_, next_session_id_, session_io,
                      session_calls, passed, subscriptions_, relay_status_, groups_,
                      cubes_, goal_counter_, active_goals_, history_, pending, journal,
                      config_file, config_, relays_, cube_to_relay_, relay_states_,
                      state_, stopping_, outbound_queue_, write_in_progress_, ops,
                      strand, link>>
       /\ enqueued' = NoOut
       /\ handed' = <<>>
       /\ notified' = <<>>
       /\ wrote' = <<>>
       /\ UNCHANGED writing
       /\ Returns

(* the task WsSession::enqueue posted: push_back, and do_write when no     *)
(* write is in progress                                                    *)
session_enqueue(s) ==
    LET q == Append(send_queue_[s], Head(session_strand[s]))
    IN /\ session_strand[s] # <<>>
       /\ session_strand' = [session_strand EXCEPT ![s] = Tail(@)]
       /\ task' = SessionTask("enqueue", s, TRUE)
       /\ IF ws_write_in_progress_[s]
          THEN /\ send_queue_' = [send_queue_ EXCEPT ![s] = q]
               /\ UNCHANGED <<ws_write_in_progress_, session_write, written>>
          ELSE /\ do_write(s, q)
               /\ session_write' = writes_after(s, 0, q)
       /\ UNCHANGED <<acceptor_open, sessions_, next_session_id_, session_io,
                      session_calls, passed, subscriptions_, relay_status_, groups_,
                      cubes_, goal_counter_, active_goals_, history_, pending, journal,
                      config_file, config_, relays_, cube_to_relay_, relay_states_,
                      state_, stopping_, outbound_queue_, write_in_progress_, ops,
                      strand, link>>
       /\ enqueued' = NoOut
       /\ handed' = <<>>
       /\ notified' = <<>>
       /\ wrote' = <<>>
       /\ UNCHANGED writing
       /\ Returns

(* on_write: after an error close_with_error and nothing else; otherwise   *)
(* pop_front and do_write.  A write on a socket that is closed fails.      *)
session_on_write(s, ok) ==
    /\ session_write[s] > 0
    /\ ok => ~socket_closed(s)
    /\ task' = SessionTask("on_write", s, ok)
    /\ UNCHANGED session_io
    /\ IF ok
       THEN /\ do_write(s, Tail(send_queue_[s]))
            /\ session_write' = writes_after(s, 1, Tail(send_queue_[s]))
            /\ UNCHANGED <<acceptor_open, sessions_, next_session_id_,
                           session_calls, session_strand, passed, subscriptions_,
                           relay_status_, groups_, cubes_, goal_counter_, active_goals_,
                           history_, pending, journal, config_file, config_, relays_,
                           cube_to_relay_, relay_states_, state_, stopping_,
                           outbound_queue_, write_in_progress_, ops, strand, link>>
            /\ enqueued' = NoOut
            /\ handed' = <<>>
            /\ notified' = <<>>
            /\ wrote' = <<>>
            /\ UNCHANGED writing
            /\ Returns
       ELSE /\ session_write' = [session_write EXCEPT ![s] = @ - 1]
            /\ UNCHANGED <<send_queue_, ws_write_in_progress_, written>>
            /\ handle_session_closed(s)

(***************************************************************************)
(* FleetOrchestrator, called directly.  A thread inside assign_goal draws  *)
(* its id from the atomic counter and then takes mutex_ to store the       *)
(* assignment, so another thread's call can run between the two.           *)
(* clear_goal and the block of assign_goal under mutex_ are one step each. *)
(***************************************************************************)
orchestrator_call(handler, targets, threw) ==
    /\ task' = [Task(handler) EXCEPT !.targets = targets, !.threw = threw]
    /\ UNCHANGED <<acceptor_open, sessions_, next_session_id_, session_io, subscriptions_,
                   relay_status_, groups_, cubes_, config_file, config_, relays_, cube_to_relay_, relay_states_,
                   state_, stopping_, outbound_queue_, write_in_progress_, ops, strand, link>>
    /\ SessionUnchanged
    /\ enqueued' = NoOut
    /\ handed' = <<>>
    /\ notified' = <<>>
    /\ wrote' = <<>>
    /\ UNCHANGED writing

assign_goal_enter_count_first(t, request) ==
    /\ ~pending[t].busy
    /\ orchestrator_call("assign_goal", request.targets, request.targets = <<>>)
    /\ goal_counter_' = goal_counter_ + 1
    /\ UNCHANGED <<active_goals_, history_>>
    /\ IF request.targets = <<>>
       THEN UNCHANGED <<pending, journal>>
       ELSE LET assignment == GoalAssignment(goal_counter_ + 1, request)
            IN /\ pending' = [pending EXCEPT ![t] = [busy |-> TRUE, assignment |-> assignment,
                                                     keep_history |-> request.keep_history]]
               /\ journal' = Append(journal, Event("generate", assignment, request.keep_history))

(* assign_goal up to the lock: the throw for empty targets, or the id *)
assign_goal_enter(t, request) ==
    /\ ~pending[t].busy
    /\ orchestrator_call("assign_goal", request.targets, request.targets = <<>>)
    /\ UNCHANGED <<active_goals_, history_>>
    /\ IF request.targets = <<>>
       THEN UNCHANGED <<goal_counter_, pending, journal>>
       ELSE LET assignment == GoalAssignment(goal_counter_ + 1, request)
            IN /\ goal_counter_' = goal_counter_ + 1
               /\ pending' = [pending EXCEPT ![t] = [busy |-> TRUE, assignment |-> assignment,
                                                     keep_history |-> request.keep_history]]
               /\ journal' = Append(journal, Event("generate", assignment, request.keep_history))

(* assign_goal from the lock to its return *)
assign_goal_store(t) ==
    /\ pending[t].busy
    /\ orchestrator_call("assign_goal_return", <<pending[t].assignment.cube_id>>, FALSE)
    /\ LET stored == store_assignment(active_goals_, history_, pending[t].assignment,
                                      pending[t].keep_history)
       IN /\ active_goals_' = stored.active
          /\ history_' = stored.history
    /\ pending' = [pending EXCEPT ![t] = NoCall]
    /\ journal' = Append(journal, Event("store", pending[t].assignment, pending[t].keep_history))
    /\ UNCHANGED goal_counter_

NoGoalPose == [x |-> 0, y |-> 0, angle |-> None]

clear_goal(cube_id) ==
    /\ orchestrator_call("clear_goal", <<cube_id>>, FALSE)
    /\ active_goals_' = [c \in DOMAIN active_goals_ \ {cube_id} |-> active_goals_[c]]
    /\ journal' = Append(journal,
                         Event("clear", [goal_id |-> NoGoal, cube_id |-> cube_id,
                                         pose |-> NoGoalPose, priority |-> 0], FALSE))
    /\ UNCHANGED <<goal_counter_, history_, pending>>

(***************************************************************************)
(* The text frames the peers send.  fault names what is wrong with a       *)
(* frame, if anything: "not_json", "missing_field", "wrong_type".          *)
(***************************************************************************)
Frame(fault, doc) == [fault |-> fault, valid |-> TRUE, doc |-> doc]

NotJson == [fault |-> "not_json", valid |-> FALSE, doc |-> JNull]

Strings(seq) == JArr([i \in 1..Len(seq) |-> JStr(seq[i])])

Cmd(type, payload) ==
    JObj([type |-> JStr(type), request_id |-> JStr("q1"), payload |-> JObj(payload)])

Drive(targets) == [targets |-> targets, left |-> JInt(30), right |-> JInt(30)]

Led(targets) == [targets |-> targets, color |-> JObj([r |-> JInt(255)])]

Goal(targets) == [targets |-> targets, goal |-> JObj([x |-> JInt(200), y |-> JInt(200)])]

SubscribeFrames ==
    << Frame("", Cmd("subscribe", [streams |-> Strings(<<"cube_update">>),
                                   cube_filter |-> Strings(<<"A02">>)])),
       Frame("", Cmd("subscribe", [streams |-> Strings(<<"relay_status">>)])),
       Frame("", Cmd("subscribe", [streams |-> Strings(<<>>),
                                   include_history |-> JBool(TRUE)])) >>

CommandFrames ==
    << Frame("", Cmd("manual_drive", Drive(Strings(<<"A01">>)))),
       Frame("", Cmd("manual_drive", Drive(Strings(<<"ZZZ">>)))),
       Frame("", Cmd("set_led", Led(Strings(<<"A01", "A02">>)))),
       Frame("", Cmd("set_led", Led(Strings(<<"A01", "ZZZ">>)))),
       Frame("", Cmd("set_goal", Goal(Strings(<<"A01">>)))),
       Frame("", Cmd("set_group", [group_id |-> JStr("g1"), members |-> Strings(<<"A01">>)])),
       Frame("", Cmd("request_snapshot", <<>>)),
       Frame("", Cmd("bogus", <<>>)) >>

FaultyFrames ==
    << NotJson,
       Frame("missing_field", JObj([request_id |-> JStr("q1"), payload |-> EmptyObj])),
       Frame("missing_field", Cmd("manual_drive", [left |-> JInt(30)])),
       Frame("missing_field", Cmd("set_goal", [targets |-> Strings(<<"A01">>)])),
       Frame("wrong_type", Cmd("manual_drive", [targets |-> Strings(<<"A01">>),
                                                left |-> JStr("fast")])),
       Frame("wrong_type", Cmd("manual_drive", Drive(JArr(<<JInt(5)>>)))),
       Frame("wrong_type", Cmd("set_led", [targets |-> JStr("A01")])),
       Frame("wrong_type", JObj([type |-> JStr("request_snapshot"), request_id |-> JInt(5)])),
       Frame("", Cmd("manual_drive", Drive(Strings(<<>>)))) >>

FleetFrames ==
    << Frame("", Cmd("manual_drive", Drive(Strings(<<"A01", "A02">>)))),
       Frame("", Cmd("manual_drive", Drive(Strings(<<"A02", "A01">>)))),
       Frame("", Cmd("manual_drive", Drive(Strings(<<"A01", "ZZZ", "A02">>)))),
       Frame("", Cmd("manual_drive", Drive(Strings(<<"ZZZ">>)))),
       Frame("", Cmd("set_led", Led(Strings(<<"A01", "A02">>)))),
       Frame("", Cmd("set_led", Led(Strings(<<"A02", "ZZZ", "A01">>)))) >>

Response(payload) == Frame("", JObj([type |-> JStr("response"), payload |-> JObj(payload)]))

PositionFrame(cube_id) ==
    Response([info |-> JStr("position"), target |-> JStr(cube_id),
              position |-> JObj([x |-> JInt(120), y |-> JInt(80), angle |-> JInt(90),
                                 on_mat |-> JBool(TRUE)])])

BatteryFrame(cube_id) ==
    Response([info |-> JStr("battery"), target |-> JStr(cube_id), battery_level |-> JInt(80)])

RelayFrames ==
    << NotJson,
       PositionFrame("A01"),
       PositionFrame("A02"),
       BatteryFrame("A01"),
       Frame("", JObj([type |-> JStr("system"), payload |-> EmptyObj])),
       Frame("", JObj([type |-> JStr("error"), payload |-> JObj([message |-> JStr("boom")])])) >>

(***************************************************************************)
(* The state after construction, for a relay configuration.                *)
(***************************************************************************)
RECURSIVE cube_map_one_relay(_, _)
cube_map_one_relay(config, ids) ==
    IF ids = {} THEN <<>>
    ELSE LET r == CHOOSE x \in ids : TRUE
         IN [c \in Range(config[r]) |-> r]

RECURSIVE cube_map(_, _)
cube_map(config, ids) ==
    IF ids = {} THEN <<>>
    ELSE LET r == CHOOSE x \in ids : TRUE
             rest == cube_map(config, ids \ {r})
         IN [c \in DOMAIN rest \cup Range(config[r]) |->
               IF c \in Range(config[r]) THEN r ELSE rest[c]]

(* a configuration file that lists the relays of config *)
RECURSIVE relay_entries(_, _)
relay_entries(config, ids) ==
    IF ids = {} THEN <<>>
    ELSE LET r == CHOOSE x \in ids : TRUE
         IN <<JObj([id |-> JStr(r), uri |-> JStr("ws://relay"), cubes |-> Strings(config[r])])>>
              \o relay_entries(config, ids \ {r})

ConfigFile(config) ==
    JObj([ui |-> JObj([port |-> JInt(8080)]),
          relays |-> JArr(relay_entries(config, DOMAIN config))])

NotLoaded == [status |-> "not loaded"]

(* ControlServerConfig::relays as the constructor's loop reads it *)
relay_table(relays) ==
    [id \in {relays[i].id : i \in DOMAIN relays} |->
       relays[CHOOSE i \in DOMAIN relays : relays[i].id = id].cubes]

InitWith(config) ==
    /\ config_file = ConfigFile(config)
    /\ config_ = load_config(ConfigFile(config))
    /\ acceptor_open = FALSE
    /\ sessions_ = {}
    /\ next_session_id_ = 1
    /\ session_io = [s \in SessionIds |-> "none"]
    /\ session_strand = NoOut
    /\ send_queue_ = NoOut
    /\ ws_write_in_progress_ = [s \in SessionIds |-> FALSE]
    /\ session_write = [s \in SessionIds |-> 0]
    /\ session_calls = [s \in SessionIds |-> NoCalls]
    /\ passed = NoOut
    /\ written = NoOut
    /\ running = [t \in IoThreads |-> Idle]
    /\ subscriptions_ = <<>>
    /\ relay_status_ = <<>>
    /\ groups_ = <<>>
    /\ cubes_ = <<>>
    /\ goal_counter_ = 0
    /\ active_goals_ = <<>>
    /\ history_ = <<>>
    /\ pending = [t \in ThreadIds |-> NoCall]
    /\ journal = <<>>
    /\ relays_ = config
    /\ cube_to_relay_ = cube_map(config, DOMAIN config)
    /\ relay_states_ = [r \in DOMAIN config |-> Stopped]
    /\ state_ = [r \in DOMAIN config |-> Stopped]
    /\ stopping_ = [r \in DOMAIN config |-> FALSE]
    /\ outbound_queue_ = [r \in DOMAIN config |-> <<>>]
    /\ write_in_progress_ = [r \in DOMAIN config |-> FALSE]
    /\ ops = [r \in DOMAIN config |-> NoOps]
    /\ strand = [r \in DOMAIN config |-> <<>>]
    /\ link = [r \in DOMAIN config |-> "none"]
    /\ enqueued = NoOut
    /\ handed = <<>>
    /\ notified = <<>>
    /\ wrote = <<>>
    /\ writing = {}
    /\ task = Task("init")

RelayIds == DOMAIN relays_

(***************************************************************************)
(* Startup: the application loads the configuration file and, when         *)
(* load_config returns, constructs the relay manager from it.              *)
(***************************************************************************)
StartupUnchanged ==
    /\ UNCHANGED <<acceptor_open, sessions_, next_session_id_, session_io,
                   session_strand, send_queue_, ws_write_in_progress_, session_write,
                   session_calls, passed, written, subscriptions_,
                   relay_status_, groups_, cubes_, goal_counter_, active_goals_,
                   history_, pending, journal, config_file,
                   enqueued, handed, notified, wrote, writing>>
    /\ Returns

load_config_call ==
    /\ config_ = NotLoaded
    /\ config_' = load_config(config_file)
    /\ task' = Task("load_config")
    /\ StartupUnchanged
    /\ UNCHANGED <<relays_, cube_to_relay_, relay_states_, state_, stopping_,
                   outbound_queue_, write_in_progress_, ops, strand, link>>

RelayManager(config) ==
    /\ config_.status = "ok"
    /\ relays_ = <<>>
    /\ relays_' = config
    /\ cube_to_relay_' = cube_map(config, DOMAIN config)
    /\ relay_states_' = [r \in DOMAIN config |-> Stopped]
    /\ state_' = [r \in DOMAIN config |-> Stopped]
    /\ stopping_' = [r \in DOMAIN config |-> FALSE]
    /\ outbound_queue_' = [r \in DOMAIN config |-> <<>>]
    /\ write_in_progress_' = [r \in DOMAIN config |-> FALSE]
    /\ ops' = [r \in DOMAIN config |-> NoOps]
    /\ strand' = [r \in DOMAIN config |-> <<>>]
    /\ link' = [r \in DOMAIN config |-> "none"]
    /\ task' = Task("RelayManager")
    /\ StartupUnchanged
    /\ UNCHANGED config_

(* The application starts the relay manager once, at startup, and stops it *)
(* once, at shutdown.  A connection that has never been started has made   *)
(* no status callback.                                                     *)
never_started(r) == r \notin DOMAIN relay_status_

never_stopped(r) == ~never_started(r) /\ ~stopping_[r]

(***************************************************************************)
(* Publication: sessions subscribe and the gateway publishes what relays   *)
(* and commands cause.  One relay that connects and may be closed by its   *)
(* peer.                                                                   *)
(***************************************************************************)
StreamFrames ==
    << Frame("", Cmd("set_led", Led(Strings(<<"A01", "A02">>)))),
       Frame("", Cmd("set_goal", Goal(Strings(<<"A01">>)))) >>

StreamRelayFrames ==
    << PositionFrame("A01"),
       PositionFrame("A02"),
       Frame("", JObj([type |-> JStr("system"), payload |-> EmptyObj])) >>

Init == InitWith(ConfigOneRelay)

Next ==
    \/ ws_start
    \/ ws_stop
    \/ do_accept
    \/ \E s \in SessionIds, ok \in BOOLEAN : session_on_accept(s, ok)
    \/ \E s \in SessionIds, i \in DOMAIN SubscribeFrames :
         session_on_read(s, SubscribeFrames[i], FALSE)
    \/ \E s \in SessionIds, i \in DOMAIN StreamFrames :
         session_on_read(s, StreamFrames[i], FALSE)
    \/ \E s \in SessionIds : session_on_read_error(s)
    \/ \E r \in RelayIds : never_started(r) /\ relay_start(r, FALSE)
    \/ \E r \in RelayIds : handle_resolve(r, TRUE, FALSE)
    \/ \E r \in RelayIds : handle_connect(r, TRUE, FALSE)
    \/ \E r \in RelayIds : handle_handshake(r, TRUE, FALSE)
    \/ \E r \in RelayIds, i \in DOMAIN StreamRelayFrames :
         relay_on_read(r, StreamRelayFrames[i], FALSE)
    \/ \E r \in RelayIds : relay_on_read_closed(r, FALSE)

Spec == Init /\ [][Next]_vars

(***************************************************************************)
(* Cube filters: sessions that filter on a cube or not, and the commands   *)
(* and relay messages that change cubes.                                   *)
(***************************************************************************)
FilterFrames ==
    << SubscribeFrames[1],
       Frame("", Cmd("set_led", Led(Strings(<<"A01", "A02">>)))),
       Frame("", Cmd("set_goal", Goal(Strings(<<"A01", "A02">>)))) >>

NextFilter ==
    \/ ws_start
    \/ do_accept
    \/ \E s \in SessionIds : session_on_accept(s, TRUE)
    \/ \E s \in SessionIds, i \in DOMAIN FilterFrames :
         session_on_read(s, FilterFrames[i], FALSE)
    \/ \E s \in SessionIds : session_on_read_error(s)
    \/ \E r \in RelayIds : never_started(r) /\ relay_start(r, FALSE)
    \/ \E r \in RelayIds : handle_resolve(r, TRUE, FALSE)
    \/ \E r \in RelayIds : handle_connect(r, TRUE, FALSE)
    \/ \E r \in RelayIds : handle_handshake(r, TRUE, FALSE)
    \/ \E r \in RelayIds : relay_on_read(r, PositionFrame("A01"), FALSE)
    \/ \E r \in RelayIds : relay_on_read(r, PositionFrame("A02"), FALSE)

SpecFilter == Init /\ [][NextFilter]_vars

(***************************************************************************)
(* Commands: sessions send every command and every faulty frame; one relay *)
(* that connects.                                                          *)
(***************************************************************************)
NextCommand ==
    \/ ws_start
    \/ ws_stop
    \/ do_accept
    \/ \E s \in SessionIds : session_on_accept(s, TRUE)
    \/ \E s \in SessionIds : session_on_read(s, SubscribeFrames[3], FALSE)
    \/ \E s \in SessionIds, i \in DOMAIN CommandFrames :
         session_on_read(s, CommandFrames[i], FALSE)
    \/ \E s \in SessionIds, i \in DOMAIN FaultyFrames :
         session_on_read(s, FaultyFrames[i], FALSE)
    \/ \E s \in SessionIds : session_on_read_error(s)
    \/ \E r \in RelayIds : never_started(r) /\ relay_start(r, FALSE)
    \/ \E r \in RelayIds : handle_resolve(r, TRUE, FALSE)
    \/ \E r \in RelayIds : handle_connect(r, TRUE, FALSE)
    \/ \E r \in RelayIds : handle_handshake(r, TRUE, FALSE)

SpecCommand == Init /\ [][NextCommand]_vars

(***************************************************************************)
(* Subscriptions: sessions that subscribe again and again, with streams    *)
(* and cube_filter present, absent, empty, mixed with non-strings or of    *)
(* another type.  Each case carries the subscription it asks for.          *)
(***************************************************************************)
SubscribeCase(payload, streams, cube_filter) ==
    [frame |-> Frame("", Cmd("subscribe", payload)), streams |-> streams,
     cube_filter |-> cube_filter]

SubscribeCases ==
    << SubscribeCase([streams |-> Strings(<<"cube_update">>), cube_filter |-> Strings(<<"A02">>)],
                     {"cube_update"}, {"A02"}),
       SubscribeCase([streams |-> Strings(<<"relay_status">>)],
                     {"relay_status"}, {}),
       SubscribeCase([streams |-> Strings(<<>>), include_history |-> JBool(TRUE)],
                     {"relay_status", "cube_update", "fleet_state", "log"}, {}),
       SubscribeCase([cube_filter |-> JArr(<<JStr("A01"), JInt(5), JStr("A02")>>)],
                     {"relay_status", "cube_update", "fleet_state", "log"}, {"A01", "A02"}),
       SubscribeCase([streams |-> JArr(<<JInt(5)>>), cube_filter |-> Strings(<<>>)],
                     {"relay_status", "cube_update", "fleet_state", "log"}, {}),
       SubscribeCase([streams |-> JArr(<<JStr("log"), JInt(7), JStr("fleet_state")>>)],
                     {"log", "fleet_state"}, {}),
       SubscribeCase([streams |-> JStr("log"), cube_filter |-> Strings(<<"A01">>)],
                     {"relay_status", "cube_update", "fleet_state", "log"}, {"A01"}) >>

(* a subscribe whose include_history is not a boolean *)
SubscribeWrongType ==
    Frame("wrong_type", Cmd("subscribe", [streams |-> Strings(<<"log">>),
                                          include_history |-> JStr("yes")]))

NextSubscribe ==
    \/ ws_start
    \/ ws_stop
    \/ do_accept
    \/ \E s \in SessionIds : session_on_accept(s, TRUE)
    \/ \E s \in SessionIds, i \in DOMAIN SubscribeCases :
         session_on_read(s, SubscribeCases[i].frame, FALSE)
    \/ \E s \in SessionIds : session_on_read(s, SubscribeWrongType, FALSE)
    \/ \E s \in SessionIds : session_on_read_error(s)

SpecSubscribe == Init /\ [][NextSubscribe]_vars

(***************************************************************************)
(* LEDs: sessions that set colours on cubes of a relay that connects and   *)
(* loses its connection.  Each case carries its targets and its colour.    *)
(***************************************************************************)
Rgb(r, g, b) == [r |-> r, g |-> g, b |-> b]

LedCase(payload, targets, color) ==
    [frame |-> Frame("", Cmd("set_led", payload)), targets |-> targets, color |-> color]

LedCases ==
    << LedCase([targets |-> Strings(<<"A01", "A02">>), color |-> JObj([r |-> JInt(255)])],
               {"A01", "A02"}, Rgb(255, 0, 0)),
       LedCase([targets |-> Strings(<<"A02">>), color |-> JObj([g |-> JInt(7), b |-> JInt(9)])],
               {"A02"}, Rgb(0, 7, 9)),
       LedCase([targets |-> JArr(<<JStr("A01"), JInt(5)>>)],
               {"A01"}, Rgb(0, 0, 0)),
       LedCase([targets |-> Strings(<<"A01", "ZZZ">>), color |-> JObj([g |-> JInt(7), b |-> JInt(9)])],
               {"A01", "ZZZ"}, Rgb(0, 7, 9)),
       LedCase([targets |-> Strings(<<>>), color |-> JObj([r |-> JInt(255)])],
               {}, Rgb(255, 0, 0)),
       LedCase([targets |-> JStr("A01"), color |-> JObj([r |-> JInt(255)])],
               {}, Rgb(255, 0, 0)),
       LedCase([targets |-> Strings(<<"A01">>), color |-> JStr("red")],
               {"A01"}, Rgb(0, 0, 0)) >>

NextLed ==
    \/ ws_start
    \/ ws_stop
    \/ do_accept
    \/ \E s \in SessionIds : session_on_accept(s, TRUE)
    \/ \E s \in SessionIds, i \in DOMAIN LedCases :
         session_on_read(s, LedCases[i].frame, FALSE)
    \/ \E s \in SessionIds : session_on_read_error(s)
    \/ \E r \in RelayIds : never_started(r) /\ relay_start(r, FALSE)
    \/ \E r \in RelayIds : handle_resolve(r, TRUE, FALSE)
    \/ \E r \in RelayIds : handle_connect(r, TRUE, FALSE)
    \/ \E r \in RelayIds : handle_handshake(r, TRUE, FALSE)
    \/ \E r \in RelayIds : relay_on_read_closed(r, FALSE)

SpecLed == Init /\ [][NextLed]_vars

(***************************************************************************)
(* Goals: sessions with different subscriptions that assign goals, one     *)
(* after another, to one or several cubes.  Each valid case carries its    *)
(* targets in order and its pose; the others are refused.                  *)
(***************************************************************************)
Pose(x, y, angle) == [x |-> x, y |-> y, angle |-> angle]

GoalCase(payload, targets, pose) ==
    [frame |-> Frame("", Cmd("set_goal", payload)), targets |-> targets, pose |-> pose]

GoalCases ==
    << GoalCase([targets |-> Strings(<<"A01">>),
                 goal |-> JObj([x |-> JInt(200), y |-> JInt(200)]), priority |-> JInt(1)],
                <<"A01">>, Pose(200, 200, None)),
       GoalCase([targets |-> Strings(<<"A02", "A01">>),
                 goal |-> JObj([x |-> JInt(50), angle |-> JInt(90)]),
                 keep_history |-> JBool(TRUE)],
                <<"A02", "A01">>, Pose(50, 0, Some(90))),
       GoalCase([targets |-> JArr(<<JInt(5), JStr("A02")>>), goal |-> EmptyObj],
                <<"A02">>, Pose(0, 0, None)) >>

RefusedGoalFrames ==
    << Frame("", Cmd("set_goal", [targets |-> Strings(<<>>), goal |-> EmptyObj])),
       Frame("", Cmd("set_goal", [targets |-> JArr(<<JInt(5)>>), goal |-> EmptyObj])),
       Frame("missing_field", Cmd("set_goal", [targets |-> Strings(<<"A01">>)])) >>

NextGoal ==
    \/ ws_start
    \/ ws_stop
    \/ do_accept
    \/ \E s \in SessionIds : session_on_accept(s, TRUE)
    \/ \E s \in SessionIds : session_on_read(s, SubscribeFrames[1], FALSE)
    \/ \E s \in SessionIds, i \in DOMAIN GoalCases :
         session_on_read(s, GoalCases[i].frame, FALSE)
    \/ \E s \in SessionIds, i \in DOMAIN RefusedGoalFrames :
         session_on_read(s, RefusedGoalFrames[i], FALSE)

SpecGoal == Init /\ [][NextGoal]_vars

(***************************************************************************)
(* The orchestrator alone: threads that assign goals to two cubes, with    *)
(* and without history, and with no target; goals that are cleared.        *)
(***************************************************************************)
GoalRequest(targets, keep_history) ==
    [targets |-> targets, pose |-> [x |-> 200, y |-> 200, angle |-> None],
     priority |-> 0, keep_history |-> keep_history]

OrchestratorRequests ==
    << GoalRequest(<<"A01">>, TRUE),
       GoalRequest(<<"A02", "A01">>, FALSE),
       GoalRequest(<<>>, TRUE) >>

(* the entries of the journal of one kind, in order *)
Events(op) == SelectSeq(journal, LAMBDA e : e.op = op)

NextOrchestrator ==
    \/ \E t \in ThreadIds, i \in DOMAIN OrchestratorRequests :
         /\ goal_counter_ < MaxCalls
         /\ assign_goal_enter(t, OrchestratorRequests[i])
    \/ \E t \in ThreadIds : assign_goal_store(t)
    \/ \E c \in {"A01", "A02"} :
         /\ Len(Events("clear")) < MaxClears
         /\ clear_goal(c)

SpecOrchestrator == Init /\ [][NextOrchestrator]_vars

(***************************************************************************)
(* The history: one thread that assigns more goals than the history holds, *)
(* nearly all of them with keep_history.                                   *)
(***************************************************************************)
Plain == {i \in DOMAIN journal : journal[i].op = "generate" /\ ~journal[i].keep_history}

NextHistory ==
    \/ /\ goal_counter_ < max_history_ + MaxPlain + 2
       /\ assign_goal_enter(1, GoalRequest(<<"A01">>, TRUE))
    \/ /\ Cardinality(Plain) < MaxPlain
       /\ assign_goal_enter(1, GoalRequest(<<"A01">>, FALSE))
    \/ assign_goal_store(1)

SpecHistory == Init /\ [][NextHistory]_vars

(***************************************************************************)
(* Startup from a configuration file, then relays that are started and     *)
(* stopped while a session drives their cubes.                             *)
(***************************************************************************)
RelayEntry(id, cubes) == JObj([id |-> JStr(id), uri |-> JStr("ws://relay"), cubes |-> cubes])

Point(x, y) == JObj([x |-> JInt(x), y |-> JInt(y)])

Document(port, relays, field) ==
    JObj([k \in {"ui", "relays", "field"} \ {IF field = JNull THEN "field" ELSE ""} |->
            CASE k = "ui" -> JObj([port |-> port])
              [] k = "relays" -> relays
              [] k = "field" -> field])

TwoRelays == JArr(<<RelayEntry("r1", Strings(<<"A01">>)), RelayEntry("r2", Strings(<<"A02">>))>>)

FilePorts == <<JInt(8080), JInt(0), JInt(-1), JInt(65536)>>

FileRelays ==
    << JArr(<<RelayEntry("r1", Strings(<<"A01", "A02">>))>>),
       JArr(<<>>),
       JObj(<<>>),
       JArr(<<RelayEntry("r1", Strings(<<"A01">>)), RelayEntry("r2", Strings(<<"A01">>))>>),
       JArr(<<RelayEntry("r1", Strings(<<"A01">>)), RelayEntry("r1", Strings(<<"A02">>))>>),
       JArr(<<RelayEntry("r1", Strings(<<"A01", "A01">>))>>),
       JArr(<<RelayEntry("r1", Strings(<<>>))>>),
       JArr(<<RelayEntry("r1", JStr("A01"))>>),
       JArr(<<RelayEntry("r1", Strings(<<"A01", "A2">>))>>),
       JArr(<<RelayEntry("r1", Strings(<<"A001">>))>>),
       JArr(<<RelayEntry("r1", Strings(<<"A01">>)), RelayEntry("r2", Strings(<<"">>))>>),
       JArr(<<RelayEntry("", Strings(<<"A01">>))>>),
       JArr(<<JObj([id |-> JStr("r1"), uri |-> JStr("ws://relay")])>>) >>

FileFields ==
    << JObj([top_left |-> Point(0, 0), bottom_right |-> Point(300, 200)]),
       JObj([top_left |-> Point(100, 100), bottom_right |-> Point(100, 200)]),
       JObj([top_left |-> Point(100, 100), bottom_right |-> Point(200, 100)]),
       JObj([top_left |-> Point(100, 100), bottom_right |-> Point(50, 50)]),
       JObj([bottom_right |-> Point(10, 500)]),
       JObj([top_left |-> Point(45, 500)]),
       JObj([top_left |-> Point(454, 454)]) >>

ConfigFiles ==
    {NoFile, BadJson, JObj([relays |-> TwoRelays])}
        \cup {Document(FilePorts[i], TwoRelays, JNull) : i \in DOMAIN FilePorts}
        \cup {Document(JInt(8080), FileRelays[i], JNull) : i \in DOMAIN FileRelays}
        \cup {Document(JInt(8080), TwoRelays, FileFields[i]) : i \in DOMAIN FileFields}

ConfigFrames ==
    << Frame("", Cmd("manual_drive", Drive(Strings(<<"A01", "A02">>)))),
       Frame("", Cmd("set_led", Led(Strings(<<"A02">>)))) >>

(* the state before the application has loaded the file *)
InitFile(file) ==
    /\ config_file = file
    /\ config_ = NotLoaded
    /\ acceptor_open = FALSE
    /\ sessions_ = {}
    /\ next_session_id_ = 1
    /\ session_io = [s \in SessionIds |-> "none"]
    /\ session_strand = NoOut
    /\ send_queue_ = NoOut
    /\ ws_write_in_progress_ = [s \in SessionIds |-> FALSE]
    /\ session_write = [s \in SessionIds |-> 0]
    /\ session_calls = [s \in SessionIds |-> NoCalls]
    /\ passed = NoOut
    /\ written = NoOut
    /\ running = [t \in IoThreads |-> Idle]
    /\ subscriptions_ = <<>>
    /\ relay_status_ = <<>>
    /\ groups_ = <<>>
    /\ cubes_ = <<>>
    /\ goal_counter_ = 0
    /\ active_goals_ = <<>>
    /\ history_ = <<>>
    /\ pending = [t \in ThreadIds |-> NoCall]
    /\ journal = <<>>
    /\ relays_ = <<>>
    /\ cube_to_relay_ = <<>>
    /\ relay_states_ = <<>>
    /\ state_ = <<>>
    /\ stopping_ = <<>>
    /\ outbound_queue_ = <<>>
    /\ write_in_progress_ = <<>>
    /\ ops = <<>>
    /\ strand = <<>>
    /\ link = <<>>
    /\ enqueued = NoOut
    /\ handed = <<>>
    /\ notified = <<>>
    /\ wrote = <<>>
    /\ writing = {}
    /\ task = Task("init")

InitConfig == \E file \in ConfigFiles : InitFile(file)

NextConfig ==
    \/ load_config_call
    \/ /\ config_.status = "ok"
       /\ RelayManager(relay_table(config_.relays))
    \/ relays_ # <<>> /\ ws_start
    \/ do_accept
    \/ \E s \in SessionIds : session_on_accept(s, TRUE)
    \/ \E s \in SessionIds, i \in DOMAIN ConfigFrames :
         session_on_read(s, ConfigFrames[i], FALSE)
    \/ \E r \in RelayIds : never_started(r) /\ relay_start(r, FALSE)
    \/ \E r \in RelayIds : never_stopped(r) /\ relay_stop(r, FALSE)
    \/ \E r \in RelayIds : handle_resolve(r, TRUE, FALSE)
    \/ \E r \in RelayIds : handle_connect(r, TRUE, FALSE)
    \/ \E r \in RelayIds : handle_handshake(r, TRUE, FALSE)
    \/ \E r \in RelayIds : relay_on_read(r, PositionFrame("A01"), FALSE)
    \/ \E r \in RelayIds : relay_on_read_closed(r, FALSE)
    \/ \E r \in RelayIds : run_strand(r, FALSE)

SpecConfig == InitConfig /\ [][NextConfig]_vars

(***************************************************************************)
(* Telemetry: one relay that connects and reports on its two cubes with    *)
(* responses that carry all, some or none of the fields.  A case holds the *)
(* frame and what it carries: the position and led sub-fields with their   *)
(* values, and the battery level.                                          *)
(***************************************************************************)
TelemetryCase(cube_id, info, payload, position, led, battery) ==
    [frame |-> Response([k \in DOMAIN payload \cup {"info", "target"} |->
                            CASE k = "info" -> JStr(info)
                              [] k = "target" -> JStr(cube_id)
                              [] OTHER -> payload[k]]),
     cube_id |-> cube_id, position |-> position, led |-> led, battery |-> battery]

TelemetryCasesFor(c) ==
    << TelemetryCase(c, "position",
                     [position |-> JObj([x |-> JInt(120), y |-> JInt(80), angle |-> JInt(90),
                                         on_mat |-> JBool(TRUE)]),
                      led |-> JObj([r |-> JInt(255), g |-> JInt(128), b |-> JInt(64)])],
                     [x |-> 120, y |-> 80, deg |-> 90, on_mat |-> TRUE],
                     [r |-> 255, g |-> 128, b |-> 64], None),
       TelemetryCase(c, "position", [position |-> JObj([x |-> JInt(50)])],
                     [x |-> 50], <<>>, None),
       TelemetryCase(c, "position", [position |-> JObj([x |-> JStr("far"), y |-> JInt(60)])],
                     [y |-> 60], <<>>, None),
       TelemetryCase(c, "position", [led |-> JObj([g |-> JInt(10)])],
                     <<>>, [g |-> 10], None),
       TelemetryCase(c, "battery", [battery_level |-> JInt(80)],
                     <<>>, <<>>, Some(80)),
       TelemetryCase(c, "battery", [battery_level |-> JStr("full")],
                     <<>>, <<>>, None) >>

TelemetryCases == TelemetryCasesFor("A01") \o TelemetryCasesFor("A02")

NextTelemetry ==
    \/ \E r \in RelayIds : never_started(r) /\ relay_start(r, FALSE)
    \/ \E r \in RelayIds : handle_resolve(r, TRUE, FALSE)
    \/ \E r \in RelayIds : handle_connect(r, TRUE, FALSE)
    \/ \E r \in RelayIds : handle_handshake(r, TRUE, FALSE)
    \/ \E r \in RelayIds, i \in DOMAIN TelemetryCases :
         relay_on_read(r, TelemetryCases[i].frame, FALSE)
    \/ \E r \in RelayIds : relay_on_read_closed(r, FALSE)

SpecTelemetry == Init /\ [][NextTelemetry]_vars

(***************************************************************************)
(* Batches: two relays that connect and fail independently, sessions that  *)
(* send commands to several cubes.                                         *)
(***************************************************************************)
InitFleet == InitWith(ConfigTwoRelays)

NextFleet ==
    \/ ws_start
    \/ do_accept
    \/ \E s \in SessionIds : session_on_accept(s, TRUE)
    \/ \E s \in SessionIds, i \in DOMAIN FleetFrames :
         session_on_read(s, FleetFrames[i], FALSE)
    \/ \E r \in RelayIds : never_started(r) /\ relay_start(r, FALSE)
    \/ \E r \in RelayIds : handle_resolve(r, TRUE, FALSE)
    \/ \E r \in RelayIds : handle_connect(r, TRUE, FALSE)
    \/ \E r \in RelayIds, ok \in BOOLEAN : handle_handshake(r, ok, FALSE)
    \/ \E r \in RelayIds : relay_on_read_closed(r, FALSE)
    \/ \E r \in RelayIds : relay_on_read_error(r, FALSE)
    \/ \E r \in RelayIds : run_strand(r, FALSE)
    \/ \E r \in RelayIds : timer_expired(r, FALSE)

SpecFleet == InitFleet /\ [][NextFleet]_vars

(***************************************************************************)
(* Shutdown: one relay that is started and stopped while sessions drive    *)
(* its cubes.                                                              *)
(***************************************************************************)
StopFrames ==
    << Frame("", Cmd("manual_drive", Drive(Strings(<<"A01">>)))),
       Frame("", Cmd("set_led", Led(Strings(<<"A02">>)))) >>

NextStop ==
    \/ ws_start
    \/ do_accept
    \/ \E s \in SessionIds : session_on_accept(s, TRUE)
    \/ \E s \in SessionIds, i \in DOMAIN StopFrames :
         session_on_read(s, StopFrames[i], FALSE)
    \/ \E r \in RelayIds : never_started(r) /\ relay_start(r, FALSE)
    \/ \E r \in RelayIds : never_stopped(r) /\ relay_stop(r, FALSE)
    \/ \E r \in RelayIds, ok \in BOOLEAN : handle_resolve(r, ok, FALSE)
    \/ \E r \in RelayIds, ok \in BOOLEAN : handle_connect(r, ok, FALSE)
    \/ \E r \in RelayIds, ok \in BOOLEAN : handle_handshake(r, ok, FALSE)
    \/ \E r \in RelayIds : relay_on_read_closed(r, FALSE)
    \/ \E r \in RelayIds : relay_on_read_error(r, FALSE)
    \/ \E r \in RelayIds : run_strand(r, FALSE)
    \/ \E r \in RelayIds : timer_expired(r, FALSE)

SpecStop == Init /\ [][NextStop]_vars

(***************************************************************************)
(* One relay connection with its transmit path, started and stopped.       *)
(***************************************************************************)
ConfigOneCube == [r1 |-> <<"A01">>]

InitRelay == InitWith(ConfigOneCube)

(* frames on_read drops: text that is no JSON, and messages whose handling *)
(* throws on a field of the wrong type                                     *)
DroppedFrames ==
    << NotJson,
       [Response([info |-> JInt(1), target |-> JStr("A01")]) EXCEPT !.fault = "throws"],
       [Response([info |-> JStr("position"), target |-> JInt(1),
                  position |-> JObj([x |-> JInt(120)])]) EXCEPT !.fault = "throws"],
       Frame("throws", JObj([type |-> JStr("error"), payload |-> JObj([message |-> JInt(5)])])) >>

NextRelay ==
    \/ \E r \in RelayIds : never_started(r) /\ relay_start(r, TRUE)
    \/ \E r \in RelayIds : never_stopped(r) /\ relay_stop(r, TRUE)
    \/ \E r \in RelayIds, ok \in BOOLEAN : handle_resolve(r, ok, TRUE)
    \/ \E r \in RelayIds, ok \in BOOLEAN : handle_connect(r, ok, TRUE)
    \/ \E r \in RelayIds, ok \in BOOLEAN : handle_handshake(r, ok, TRUE)
    \/ \E r \in RelayIds, i \in DOMAIN DroppedFrames : relay_on_read(r, DroppedFrames[i], TRUE)
    \/ \E r \in RelayIds : relay_on_read_closed(r, TRUE)
    \/ \E r \in RelayIds : relay_on_read_error(r, TRUE)
    \/ \E r \in RelayIds, ok \in BOOLEAN : relay_on_write(r, ok, TRUE)
    \/ \E r \in RelayIds : run_strand(r, TRUE)
    \/ \E r \in RelayIds : timer_expired(r, TRUE)

SpecRelay == InitRelay /\ [][NextRelay]_vars

(***************************************************************************)
(* One relay connection that is started and never stopped, under the       *)
(* scheduling the io_context gives: a ready handler runs, an armed timer   *)
(* expires, a resolve, connect, handshake or write in flight completes.    *)
(***************************************************************************)
NextReconnect ==
    \/ \E r \in RelayIds : never_started(r) /\ relay_start(r, TRUE)
    \/ \E r \in RelayIds, ok \in BOOLEAN : handle_resolve(r, ok, TRUE)
    \/ \E r \in RelayIds, ok \in BOOLEAN : handle_connect(r, ok, TRUE)
    \/ \E r \in RelayIds, ok \in BOOLEAN : handle_handshake(r, ok, TRUE)
    \/ \E r \in RelayIds, i \in DOMAIN RelayFrames : relay_on_read(r, RelayFrames[i], TRUE)
    \/ \E r \in RelayIds : relay_on_read_closed(r, TRUE)
    \/ \E r \in RelayIds : relay_on_read_error(r, TRUE)
    \/ \E r \in RelayIds, ok \in BOOLEAN : relay_on_write(r, ok, TRUE)
    \/ \E r \in RelayIds : run_strand(r, TRUE)
    \/ \E r \in RelayIds : timer_expired(r, TRUE)

FairReconnect ==
    /\ WF_vars(\E r \in RelayIds, ok \in BOOLEAN : handle_resolve(r, ok, TRUE))
    /\ WF_vars(\E r \in RelayIds, ok \in BOOLEAN : handle_connect(r, ok, TRUE))
    /\ WF_vars(\E r \in RelayIds, ok \in BOOLEAN : handle_handshake(r, ok, TRUE))
    /\ WF_vars(\E r \in RelayIds, ok \in BOOLEAN : relay_on_write(r, ok, TRUE))
    /\ WF_vars(\E r \in RelayIds : run_strand(r, TRUE))
    /\ WF_vars(\E r \in RelayIds : timer_expired(r, TRUE))

SpecReconnect == InitRelay /\ [][NextReconnect]_vars /\ FairReconnect

(***************************************************************************)
(* Sessions with their write path: every envelope a handler passes to a    *)
(* session is posted to the session's strand, pushed onto send_queue_ and  *)
(* written; handshakes, reads and writes succeed or fail.  The io_context  *)
(* is run by one thread, so the tasks of a session run one at a time.      *)
(***************************************************************************)
SessionFrames ==
    << SubscribeFrames[1], Frame("", Cmd("request_snapshot", <<>>)) >>

NextSession ==
    \/ ws_start
    \/ do_accept
    \/ \E s \in SessionIds, ok \in BOOLEAN : on_accept(s, ok, TRUE)
    \/ \E s \in SessionIds, i \in DOMAIN SessionFrames :
         session_on_read(s, SessionFrames[i], TRUE)
    \/ \E s \in SessionIds : session_on_read_error(s)
    \/ \E s \in SessionIds : session_enqueue(s)
    \/ \E s \in SessionIds, ok \in BOOLEAN : session_on_write(s, ok)

SpecSession == Init /\ [][NextSession]_vars

(***************************************************************************)
(* Relay URIs: startup from a file whose relay has a ws:// URI, a wss://   *)
(* URI or one without scheme; the relay is started, and sessions and the   *)
(* relay deliver the frames whose handling throws.                         *)
(***************************************************************************)
RelayUris == {"ws://relay", "ws://h:1/x", "wss://relay", "relay:8765", "w"}

UriFiles ==
    {Document(JInt(8080),
              JArr(<<JObj([id |-> JStr("r1"), uri |-> JStr(uri),
                           cubes |-> Strings(<<"A01">>)])>>), JNull) : uri \in RelayUris}

InitUri == \E file \in UriFiles : InitFile(file)

NextUri ==
    \/ load_config_call
    \/ /\ config_.status = "ok"
       /\ RelayManager(relay_table(config_.relays))
    \/ relays_ # <<>> /\ ws_start
    \/ do_accept
    \/ \E s \in SessionIds : session_on_accept(s, TRUE)
    \/ \E s \in SessionIds, i \in DOMAIN FaultyFrames :
         session_on_read(s, FaultyFrames[i], FALSE)
    \/ \E r \in RelayIds : never_started(r) /\ relay_start(r, FALSE)
    \/ \E r \in RelayIds : handle_resolve(r, TRUE, FALSE)
    \/ \E r \in RelayIds : handle_connect(r, TRUE, FALSE)
    \/ \E r \in RelayIds : handle_handshake(r, TRUE, FALSE)
    \/ \E r \in RelayIds, i \in DOMAIN DroppedFrames :
         relay_on_read(r, DroppedFrames[i], FALSE)

SpecUri == InitUri /\ [][NextUri]_vars

(***************************************************************************)
(* Threads: the handlers of the relay strands and of the WsServer strand   *)
(* as the threads of the io_context run them.  A thread enters a ready     *)
(* handler, the handler runs, the thread returns.  The kind of a handler   *)
(* tells which unguarded tables it reads or writes.                        *)
(***************************************************************************)
(* RelayManager::relay_states_ and CommandGateway::subscriptions_ as the   *)
(* handlers of each kind touch them: a status callback writes the state of *)
(* its relay and publishes to the subscribed sessions, a telemetry         *)
(* callback publishes cube updates, a command reads the relay state in     *)
(* send_to_cube and reads or writes the subscriptions, open and close      *)
(* write the subscriptions                                                 *)
Touches(kind) ==
    CASE kind = "status" -> {"relay_states_", "subscriptions_"}
      [] kind = "telemetry" -> {"subscriptions_"}
      [] kind = "command" -> {"relay_states_", "subscriptions_"}
      [] kind = "open" -> {"subscriptions_"}
      [] kind = "close" -> {"subscriptions_"}
      [] OTHER -> {}

(* a handler of that kind is ready on the strand *)
Ready(x, kind) ==
    IF x = ws_strand
    THEN CASE kind = "accept" -> acceptor_open /\ next_session_id_ <= MaxSessions
           [] kind = "open" -> \E s \in SessionIds : session_io[s] = "accept"
           [] kind = "command" -> \E s \in SessionIds : session_io[s] = "read"
           [] kind = "close" -> \E s \in SessionIds : session_io[s] = "read"
           [] OTHER -> FALSE
    ELSE LET r == x[2]
         IN CASE kind = "status" ->
                   never_started(r) \/ ops[r]["handshake"] > 0 \/ ops[r]["read"] > 0
              [] kind = "io" -> ops[r]["resolve"] > 0 \/ ops[r]["connect"] > 0
              [] kind = "telemetry" -> ops[r]["read"] > 0 /\ link[r] = "open"
              [] OTHER -> FALSE

HandlerKinds == {"accept", "open", "command", "close", "status", "io", "telemetry"}

(* a thread of the io_context takes a ready handler of a strand that no    *)
(* thread is inside                                                        *)
io_begin(t, x, kind) ==
    /\ running[t] = Idle
    /\ \A u \in IoThreads : running[u].strand # x
    /\ Ready(x, kind)
    /\ running' = [running EXCEPT ![t] = [strand |-> x, kind |-> kind]]
    /\ UNCHANGED handler_vars

Inside(x, kind) ==
    \E t \in IoThreads : running[t] = [strand |-> x, kind |-> kind]

ThreadFrames ==
    << Frame("", Cmd("manual_drive", Drive(Strings(<<"A01">>)))), SubscribeFrames[1] >>

NextThreads ==
    \/ (\A t \in IoThreads : running[t] = Idle) /\ ws_start
    \/ \E t \in IoThreads, kind \in HandlerKinds : io_begin(t, ws_strand, kind)
    \/ \E t \in IoThreads, r \in RelayIds, kind \in HandlerKinds :
         io_begin(t, relay_strand(r), kind)
    \/ Inside(ws_strand, "accept") /\ do_accept
    \/ \E s \in SessionIds : Inside(ws_strand, "open") /\ session_on_accept(s, TRUE)
    \/ \E s \in SessionIds, i \in DOMAIN ThreadFrames :
         Inside(ws_strand, "command") /\ session_on_read(s, ThreadFrames[i], FALSE)
    \/ \E s \in SessionIds : Inside(ws_strand, "close") /\ session_on_read_error(s)
    \/ \E r \in RelayIds :
         Inside(relay_strand(r), "status") /\ never_started(r) /\ relay_start(r, FALSE)
    \/ \E r \in RelayIds : Inside(relay_strand(r), "io") /\ handle_resolve(r, TRUE, FALSE)
    \/ \E r \in RelayIds : Inside(relay_strand(r), "io") /\ handle_connect(r, TRUE, FALSE)
    \/ \E r \in RelayIds :
         Inside(relay_strand(r), "status") /\ handle_handshake(r, TRUE, FALSE)
    \/ \E r \in RelayIds :
         Inside(relay_strand(r), "status") /\ relay_on_read_closed(r, FALSE)
    \/ \E r \in RelayIds :
         Inside(relay_strand(r), "telemetry") /\ relay_on_read(r, PositionFrame("A01"), FALSE)

SpecThreads == Init /\ [][NextThreads]_vars

(***************************************************************************)
(* Properties                                                              *)
(***************************************************************************)
IsReply(e) == e.type \in {"ack", "error"}

IsCaused(e) == e.type \in {"cube_update", "fleet_state", "snapshot", "field_info"}

IsCommand == task.handler = "on_read"

IsDrive == IsCommand /\ task.type \in {"manual_drive", "set_led"}

Replies(s) == SelectSeq(enqueued[s], IsReply)

HasError(s, code) ==
    \E i \in DOMAIN enqueued[s] : enqueued[s][i].type = "error" /\ enqueued[s][i].code = code

HasAck(s) == \E i \in DOMAIN enqueued[s] : enqueued[s][i].type = "ack"

(* C1: a session whose stream set S is not empty never has an envelope of  *)
(* type relay_status, cube_update, fleet_state or log enqueued to it when  *)
(* that type is not in S, whatever was opened, subscribed, published or    *)
(* stopped before.                                                         *)
C1_StreamFilter ==
    \A s \in DOMAIN subscriptions_ : \A i \in DOMAIN enqueued[s] :
        (subscriptions_[s].streams # {} /\ enqueued[s][i].type \in FilteredTypes)
            => enqueued[s][i].type \in subscriptions_[s].streams

(* C2: every cube_update envelope enqueued to a session whose cube_filter  *)
(* F is not empty holds only cubes of F, whichever command or relay        *)
(* message caused the update.                                              *)
C2_CubeFilter ==
    \A s \in DOMAIN subscriptions_ : \A i \in DOMAIN enqueued[s] :
        (subscriptions_[s].cube_filter # {} /\ enqueued[s][i].type = "cube_update")
            => \A j \in DOMAIN enqueued[s][i].updates :
                  enqueued[s][i].updates[j].cube_id \in subscriptions_[s].cube_filter

(* a set_led for A01 and A02 changed both; the session filtered on A02 is  *)
(* sent A02 alone while another session is sent both                       *)
C2_Witness ==
    /\ IsCommand
    /\ task.type = "set_led"
    /\ \E s \in DOMAIN subscriptions_ :
         /\ subscriptions_[s].cube_filter = {"A02"}
         /\ \E i \in DOMAIN enqueued[s] :
              /\ enqueued[s][i].type = "cube_update"
              /\ Len(enqueued[s][i].updates) = 1
    /\ \E s \in DOMAIN subscriptions_ :
         \E i \in DOMAIN enqueued[s] :
              /\ enqueued[s][i].type = "cube_update"
              /\ Len(enqueued[s][i].updates) = 2

(* C3: the ack or error of a command is enqueued to the issuing session    *)
(* before any cube_update, fleet_state, snapshot or field_info that the    *)
(* command causes is enqueued to that session.                             *)
C3_ReplyBeforeEvents ==
    IsCommand =>
        \A i, j \in DOMAIN enqueued[task.session] :
            (IsReply(enqueued[task.session][i]) /\ IsCaused(enqueued[task.session][j]))
                => i < j

(* C4: every JSON message of a session in the table gets exactly one reply *)
(* on that session, an ack or an error, carrying the message's request_id  *)
(* (the empty string when it has none).                                    *)
C4_ExactlyOneReply ==
    (IsCommand /\ task.fault # "not_json" /\ task.session \in sessions_) =>
        /\ Len(Replies(task.session)) = 1
        /\ Replies(task.session)[1].request_id = task.request_id

(* C5: a text frame with a client-side fault (not JSON, a required field   *)
(* missing, a field of the wrong JSON type) is answered on its session     *)
(* with an error of code invalid_payload, and the session stays open.      *)
C5_ClientFaultAnswered ==
    (/\ IsCommand
     /\ task.fault \in {"not_json", "missing_field", "wrong_type"}
     /\ task.session \in sessions_) =>
        /\ HasError(task.session, "invalid_payload")
        /\ session_io[task.session] = "read"

(* a target the manager cannot reach: unknown, or owned by a relay that    *)
(* the manager or the connection holds not Connected                       *)
Unreachable(cube_id) ==
    \/ cube_id \notin DOMAIN cube_to_relay_
    \/ relay_states_[cube_to_relay_[cube_id]] # Connected
    \/ state_[cube_to_relay_[cube_id]] # Connected

(* C6: an error of code relay_error is sent only when a target cube of the *)
(* command is unknown or its relay is not Connected.                       *)
C6_RelayErrorIsTransport ==
    (IsCommand /\ HasError(task.session, "relay_error")) =>
        \E k \in DOMAIN task.targets : Unreachable(task.targets[k])

(* the manager's own test of a target *)
Unavailable(cube_id) ==
    \/ cube_id \notin DOMAIN cube_to_relay_
    \/ relay_states_[cube_to_relay_[cube_id]] # Connected

FirstUnavailable(targets) ==
    CHOOSE k \in DOMAIN targets :
        /\ Unavailable(targets[k])
        /\ \A i \in 1..(k - 1) : ~Unavailable(targets[i])

(* C7: when tk is the first target of a manual_drive or set_led that is    *)
(* unknown or whose relay is not Connected, the command is answered with   *)
(* relay_error naming tk's cube or relay, the payloads of t1..t(k-1) and   *)
(* no others have been handed to their relays, in target order.            *)
C7_BatchAbortsAtFirstFailure ==
    (IsDrive /\ \E k \in DOMAIN task.targets : Unavailable(task.targets[k])) =>
        LET k == FirstUnavailable(task.targets)
            tk == task.targets[k]
            out == enqueued[task.session]
        IN /\ ~HasAck(task.session)
           /\ \E i \in DOMAIN out :
                /\ out[i].type = "error"
                /\ out[i].code = "relay_error"
                /\ out[i].name = IF tk \in DOMAIN cube_to_relay_ THEN cube_to_relay_[tk] ELSE tk
           /\ Len(handed) = k - 1
           /\ \A i \in 1..(k - 1) :
                /\ handed[i].payload.target = task.targets[i]
                /\ handed[i].relay = cube_to_relay_[task.targets[i]]
                /\ handed[i].payload.what = IF task.type = "set_led" THEN "led" ELSE "move"

(* the second relay is down: the first target's payload went out, the      *)
(* second target's relay is named in the error                             *)
C7_Witness ==
    /\ IsDrive
    /\ task.targets = <<"A01", "A02">>
    /\ Len(handed) = 1
    /\ handed[1].payload.target = "A01"
    /\ \E i \in DOMAIN enqueued[task.session] :
         /\ enqueued[task.session][i].code = "relay_error"
         /\ enqueued[task.session][i].name = "r2"

(* C8: while the connection of the relay that owns a target cube is not in *)
(* the Connected state, a manual_drive or set_led naming that cube is      *)
(* answered with relay_error and not with ack.                             *)
C8_NotConnectedIsRelayError ==
    (/\ IsDrive
     /\ task.session \in sessions_
     /\ \E k \in DOMAIN task.targets :
          /\ task.targets[k] \in DOMAIN cube_to_relay_
          /\ state_[cube_to_relay_[task.targets[k]]] # Connected) =>
        /\ HasError(task.session, "relay_error")
        /\ ~HasAck(task.session)

(* the link was reported lost in the last task *)
LinkLost(r) ==
    \E i \in DOMAIN notified : notified[i].relay = r /\ notified[i].state = Stopped

(* C9: a started connection that is not stopped and loses its link, by an  *)
(* error or by a close from the peer, eventually begins a new connect      *)
(* attempt.                                                                *)
C9_ReconnectsAfterLoss ==
    \A r \in DOMAIN ConfigOneCube :
        [](LinkLost(r) => <>(state_[r] = Connecting))

(* C10: a connection enters Connected only in the completion handler of a  *)
(* successful handshake, and every entry into Connecting comes with a      *)
(* status callback that reports Connecting.                                *)
C10_StateTransitions ==
    [][\A r \in DOMAIN state_ :
         /\ (state_[r] # Connected /\ state_'[r] = Connected) =>
               /\ task'.handler = "handle_handshake"
               /\ task'.relay = r
               /\ task'.ok
               /\ ops[r]["handshake"] > 0
         /\ (state_[r] # Connecting /\ state_'[r] = Connecting) =>
               \E i \in DOMAIN notified' :
                   /\ notified'[i].relay = r
                   /\ notified'[i].state = Connecting]_vars

(* a reconnect: the timer handler made the connection Connecting again     *)
(* while the queue still holds what was queued when it was Connected       *)
C10_Witness ==
    \E r \in DOMAIN state_ :
        /\ task.handler = "on_timer"
        /\ state_[r] = Connecting
        /\ outbound_queue_[r] # <<>>
        /\ \E i \in DOMAIN notified : notified[i].state = Connecting

(* the relay was reported Connected in the last task *)
BecameConnected(r) ==
    \/ \E i \in DOMAIN notified : notified[i].relay = r /\ notified[i].state = Connected
    \/ (task.handler = "handle_handshake" /\ task.ok /\ task.relay = r)

C13_SendDroppedUnlessConnected ==
    [][\A r \in DOMAIN relays_ :
         (task'.handler = "send" /\ task'.relay = r /\ state_[r] # Connected) =>
            /\ outbound_queue_'[r] = outbound_queue_[r]
            /\ write_in_progress_'[r] = write_in_progress_[r]
            /\ state_'[r] = state_[r]
            /\ ops'[r] = ops[r]
            /\ wrote' = <<>>
            /\ strand'[r] = Tail(strand[r])]_vars

(* a bootstrap message posted at the handshake ran after the link had      *)
(* failed and was dropped while the queue still held an older message      *)
C13_Witness ==
    \E r \in DOMAIN relays_ :
        /\ task.handler = "send"
        /\ task.relay = r
        /\ ~task.ok
        /\ state_[r] = Stopped
        /\ outbound_queue_[r] # <<>>
        /\ ~stopping_[r]

(* C14: what was queued or being written when the link failed is lost:     *)
(* when the connection is Connected again its queue holds nothing from     *)
(* before and the handshake handler writes nothing, so the first messages  *)
(* the relay is sent are the bootstrap messages posted at that handshake.  *)
C14_QueueLostOnFailure ==
    \A r \in DOMAIN relays_ :
        (task.handler = "handle_handshake" /\ task.ok /\ task.relay = r) =>
            /\ outbound_queue_[r] = <<>>
            /\ wrote = <<>>

(* C15: once stop() has run on a connection, and until start() is called   *)
(* again, no resolve, connect, handshake, read, write or timer wait of it  *)
(* is left in flight, its queue is empty, it is never Connecting or        *)
(* Connected, it reports no connecting or connected status and it gives    *)
(* nothing to async_write.                                                 *)
C15_StoppedStaysStopped ==
    \A r \in DOMAIN relays_ :
        stopping_[r] =>
            /\ ops[r] = NoOps
            /\ outbound_queue_[r] = <<>>
            /\ state_[r] = Stopped
            /\ \A i \in DOMAIN notified :
                  notified[i].relay = r => notified[i].state = Stopped
            /\ (task.relay = r => wrote = <<>>)

(* C16: once WsServer::stop has run no session is accepted while the       *)
(* acceptor is closed, the session table is empty, and no message of a     *)
(* session that stop removed from the table is given to the message        *)
(* handler (a session leaves the table by its close, after which it reads  *)
(* no more, or by stop).                                                   *)
C16_StopEndsSessions ==
    /\ (task.handler = "do_accept" => acceptor_open)
    /\ (~acceptor_open => sessions_ = {})
    /\ ((IsCommand /\ task.fault # "not_json") => task.session \in sessions_)

(* C17: every id of the gateway's subscriptions table is in the server's   *)
(* session table, and a session whose open has been handled and whose      *)
(* close has not (it is reading) is in both tables, after any sequence of  *)
(* accept, open, commands, close and stop.                                 *)
C17_TablesAgree ==
    /\ DOMAIN subscriptions_ \subseteq sessions_
    /\ \A s \in SessionIds :
          session_io[s] = "read" => (s \in sessions_ /\ s \in DOMAIN subscriptions_)

(* the task that ran last handled the open of session s *)
Opened(s) == task.handler = "on_accept" /\ task.ok /\ task.session = s

(* C18: when a session opens its subscription becomes the four default     *)
(* streams with an empty cube filter, and the first envelope enqueued to   *)
(* it is a snapshot without history whose relays are the relays that have  *)
(* reported a status, each with the status it reported last: nothing is    *)
(* enqueued to a session before its open and the open enqueues exactly     *)
(* that snapshot.                                                          *)
C18_OpenSendsSnapshot ==
    \A s \in SessionIds :
        /\ (session_io[s] \in {"none", "accept"} => enqueued[s] = <<>>)
        /\ Opened(s) =>
              /\ s \in DOMAIN subscriptions_
              /\ subscriptions_[s].streams = {"relay_status", "cube_update", "fleet_state", "log"}
              /\ subscriptions_[s].cube_filter = {}
              /\ Len(enqueued[s]) = 1
              /\ enqueued[s][1].type = "snapshot"
              /\ enqueued[s][1].body.history = FALSE
              /\ DOMAIN enqueued[s][1].body.relays = {r \in DOMAIN relays_ : ~never_started(r)}
              /\ \A r \in DOMAIN enqueued[s][1].body.relays :
                    /\ enqueued[s][1].body.relays[r].relay_id = r
                    /\ enqueued[s][1].body.relays[r].status = to_status_string(relay_states_[r])

(* the step is session s's read of the subscribe frame *)
Subscribes(s, frame) ==
    /\ task'.type = "subscribe" /\ task'.session = s
    /\ session_on_read(s, frame, FALSE)

(* C19: a subscribe command replaces the issuing session's subscription    *)
(* wholesale and leaves every other session's alone: the new streams are   *)
(* the string elements of payload.streams, or the four default streams     *)
(* when there is none; the new cube_filter is exactly the string elements  *)
(* of payload.cube_filter, empty when there is none; nothing of the        *)
(* previous subscription is kept.  A subscribe that is not acknowledged    *)
(* changes no subscription.                                                *)
C19_SubscribeReplaces ==
    [][/\ \A s \in SessionIds, i \in DOMAIN SubscribeCases :
            Subscribes(s, SubscribeCases[i].frame) =>
                /\ DOMAIN subscriptions_' = DOMAIN subscriptions_ \cup {s}
                /\ subscriptions_'[s] = [streams |-> SubscribeCases[i].streams,
                                         cube_filter |-> SubscribeCases[i].cube_filter]
                /\ \A o \in DOMAIN subscriptions_ \ {s} :
                      subscriptions_'[o] = subscriptions_[o]
       /\ \A s \in SessionIds :
            Subscribes(s, SubscribeWrongType) =>
                subscriptions_' = subscriptions_]_vars

(* a session that filtered on cube A02 has just subscribed to log and      *)
(* fleet_state only, next to a session that keeps another subscription     *)
C19_Witness ==
    /\ IsCommand /\ task.type = "subscribe" /\ ~task.threw
    /\ task.session \in DOMAIN subscriptions_
    /\ subscriptions_[task.session] = [streams |-> {"log", "fleet_state"}, cube_filter |-> {}]
    /\ \E o \in DOMAIN subscriptions_ \ {task.session} :
          subscriptions_[o] = [streams |-> {"cube_update"}, cube_filter |-> {"A02"}]

(* the step is session s's read of the set_led frame *)
SetsLed(s, frame) ==
    /\ task'.type = "set_led" /\ task'.session = s
    /\ session_on_read(s, frame, FALSE)

(* envelopes of one type among those the last task sent to session s *)
Got(s, type) == {i \in DOMAIN enqueued[s] : enqueued[s][i].type = type}

(* C20: after a set_led that is acknowledged, for targets T and colour C,  *)
(* the registry (what a snapshot taken next reports) holds led = C for     *)
(* every cube of T; after a set_led that is answered with an error the     *)
(* registry is what it was and no session is sent a cube_update.           *)
C20_SetLedRegistry ==
    [][\A s \in SessionIds, i \in DOMAIN LedCases :
          SetsLed(s, LedCases[i].frame) =>
              /\ Got(s, "ack")' # {} =>
                    \A t \in LedCases[i].targets :
                        /\ t \in DOMAIN cubes_'
                        /\ cubes_'[t].led = LedCases[i].color
              /\ Got(s, "error")' # {} =>
                    /\ cubes_' = cubes_
                    /\ \A x \in SessionIds : Got(x, "cube_update")' = {}]_vars

(* an acknowledged set_led has just recoloured A02 while A01 keeps the     *)
(* colour of an earlier one, and the change was published                  *)
C20_Witness ==
    /\ IsCommand /\ task.type = "set_led"
    /\ Got(task.session, "ack") # {}
    /\ Got(task.session, "cube_update") # {}
    /\ {"A01", "A02"} \subseteq DOMAIN cubes_
    /\ cubes_["A01"].led = Rgb(255, 0, 0)
    /\ cubes_["A02"].led = Rgb(0, 7, 9)

(* a set_led has just been refused with relay_error after cubes were       *)
(* recoloured by earlier ones                                              *)
C20_WitnessRefused ==
    /\ IsCommand /\ task.type = "set_led"
    /\ \E i \in Got(task.session, "error") : enqueued[task.session][i].code = "relay_error"
    /\ "A01" \in DOMAIN cubes_ /\ cubes_["A01"].led = Rgb(255, 0, 0)

(* the step is session s's read of the set_goal frame *)
SetsGoal(s, frame) ==
    /\ task'.type = "set_goal" /\ task'.session = s
    /\ session_on_read(s, frame, FALSE)

(* the sessions of the table that have stream in their subscription *)
Subscribers(stream) ==
    {x \in sessions_ \cap DOMAIN subscriptions_ : stream \in subscriptions_[x].streams}

(* session x may see cube t *)
Sees(x, t) == subscriptions_[x].cube_filter = {} \/ t \in subscriptions_[x].cube_filter

(* among the envelopes sent is a cube_update that reports goal g for cube t *)
ToldGoal(sent, t, g) ==
    \E i \in DOMAIN sent :
        /\ sent[i].type = "cube_update"
        /\ \E k \in DOMAIN sent[i].updates :
              sent[i].updates[k].cube_id = t /\ sent[i].updates[k].goal_id = g

(* among the envelopes sent is a fleet_state whose active_goals hold goal  *)
(* g for cube t with the pose asked for                                    *)
ToldFleet(sent, t, g, pose) ==
    \E i \in DOMAIN sent :
        /\ sent[i].type = "fleet_state"
        /\ \E a \in sent[i].body.active_goals :
              a.goal_id = g /\ a.cube_id = t /\ a.pose = pose

(* C21: a valid set_goal of a session of the table yields an ack whose     *)
(* goal_id is the newly generated id g (an id no cube and no assignment    *)
(* had before), a cube_update reporting goal g for each targeted cube to   *)
(* every session that subscribes to cube_update and may see the cube, and  *)
(* a fleet_state whose active_goals hold the assignment of g to the first  *)
(* target to every session that subscribes to fleet_state.                 *)
C21_SetGoalAnnounced ==
    [][\A s \in SessionIds, i \in DOMAIN GoalCases :
          (SetsGoal(s, GoalCases[i].frame) /\ s \in sessions_) =>
              LET g == GoalId(goal_counter_ + 1)
                  targets == GoalCases[i].targets
              IN /\ \A c \in DOMAIN cubes_ : cubes_[c].goal_id # g
                 /\ \A c \in DOMAIN active_goals_ : active_goals_[c].goal_id # g
                 /\ Cardinality(Got(s, "ack")') = 1
                 /\ \A k \in DOMAIN enqueued'[s] :
                       enqueued'[s][k].type = "ack" => enqueued'[s][k].goal_id = g
                 /\ Got(s, "error")' = {}
                 /\ \A x \in Subscribers("cube_update"), k \in DOMAIN targets :
                       Sees(x, targets[k]) => ToldGoal(enqueued'[x], targets[k], g)
                 /\ \A x \in Subscribers("fleet_state") :
                       ToldFleet(enqueued'[x], targets[1], g, GoalCases[i].pose)]_vars

(* a second goal has just been acknowledged to a session that was also     *)
(* sent the cube_update and the fleet_state for it                         *)
C21_Witness ==
    /\ IsCommand /\ task.type = "set_goal"
    /\ goal_counter_ = 2
    /\ \E k \in Got(task.session, "ack") : enqueued[task.session][k].goal_id = GoalId(2)
    /\ ToldGoal(enqueued[task.session], "A02", GoalId(2))
    /\ ToldFleet(enqueued[task.session], "A02", GoalId(2), Pose(50, 0, Some(90)))
    /\ \E x \in SessionIds \ {task.session} :
          /\ ToldGoal(enqueued[x], "A02", GoalId(2))
          /\ Got(x, "fleet_state") = {}

(* the assignments that a fleet_state envelope sent to session x by the    *)
(* step mentions and that the orchestrator did not hold before the step    *)
NewlyMentioned(x) ==
    UNION {{a \in enqueued'[x][k].body.active_goals :
                \A c \in DOMAIN active_goals_ : active_goals_[c] # a} :
           k \in {i \in DOMAIN enqueued'[x] : enqueued'[x][i].type = "fleet_state"}}

(* C22: for every goal id g, the registry has recorded goal_id g on the    *)
(* cube the goal is assigned to before a fleet_state envelope that         *)
(* mentions g is enqueued to any session: whenever a task enqueues a       *)
(* fleet_state that mentions an assignment for the first time, the         *)
(* registry holds that goal on that cube when the task ends.               *)
C22_RegistryBeforeFleetState ==
    [][\A x \in SessionIds : \A a \in NewlyMentioned(x) :
          /\ a.cube_id \in DOMAIN cubes_'
          /\ cubes_'[a.cube_id].goal_id = a.goal_id]_vars

(* a fleet_state has just mentioned goal-2 for A02, which the registry     *)
(* holds on A02 and on the other target A01, next to the older goal-1 of   *)
(* A01 that the registry no longer holds                                   *)
C22_Witness ==
    /\ IsCommand /\ task.type = "set_goal"
    /\ \E x \in SessionIds : \E k \in Got(x, "fleet_state") :
          /\ \E a \in enqueued[x][k].body.active_goals :
                a.goal_id = GoalId(2) /\ a.cube_id = "A02"
          /\ \E a \in enqueued[x][k].body.active_goals :
                a.goal_id = GoalId(1) /\ a.cube_id = "A01"
    /\ {"A01", "A02"} \subseteq DOMAIN cubes_
    /\ cubes_["A02"].goal_id = GoalId(2)
    /\ cubes_["A01"].goal_id = GoalId(2)

(* C23: the n-th successful assign_goal call gets the id goal-n, so ids    *)
(* grow in call order and none is used twice; a call with no target        *)
(* throws, draws no id and changes nothing in the orchestrator.            *)
C23_GoalIdsInCallOrder ==
    [][/\ \A n \in DOMAIN Events("generate")' :
            Events("generate")'[n].assignment.goal_id = GoalId(n)
       /\ goal_counter_' = Len(Events("generate")')
       /\ (task'.handler = "assign_goal" /\ task'.threw) =>
              /\ task'.targets = <<>>
              /\ UNCHANGED <<goal_counter_, active_goals_, history_, pending, journal>>
       /\ (task'.handler = "assign_goal" /\ ~task'.threw) =>
              /\ task'.targets # <<>>
              /\ goal_counter_' = goal_counter_ + 1]_vars

(* a call with no target has just been refused after two ids were drawn *)
C23_Witness ==
    /\ task.handler = "assign_goal" /\ task.threw
    /\ goal_counter_ = 2
    /\ Len(Events("generate")) = 2

(* the goals stored for cube c that no clear_goal(c) has followed *)
Standing(c) ==
    {i \in DOMAIN journal :
        /\ journal[i].op = "store" /\ journal[i].assignment.cube_id = c
        /\ \A k \in DOMAIN journal :
              (journal[k].op = "clear" /\ journal[k].assignment.cube_id = c) => k < i}

(* the number n of the id goal-n *)
Number(goal_id) == goal_id[2]

(* C24: the orchestrator holds at most one active assignment per cube,     *)
(* the most recently generated goal assigned to the cube and not cleared   *)
(* since, also when threads call assign_goal at the same time; and a       *)
(* snapshot's tasks_in_queue is the number of its active_goals.            *)
C24_LatestGoalPerCube ==
    /\ \A c \in {"A01", "A02"} :
          /\ c \in DOMAIN active_goals_ <=> Standing(c) # {}
          /\ c \in DOMAIN active_goals_ =>
                /\ active_goals_[c].cube_id = c
                /\ \A i \in Standing(c) :
                      Number(journal[i].assignment.goal_id) <= Number(active_goals_[c].goal_id)
    /\ fleet_snapshot(active_goals_, cubes_).tasks_in_queue
          = Cardinality(fleet_snapshot(active_goals_, cubes_).active_goals)

(* the assignments stored with keep_history, in the order they were stored *)
Kept ==
    LET stored == SelectSeq(journal, LAMBDA e : e.op = "store" /\ e.keep_history)
    IN [i \in DOMAIN stored |-> stored[i].assignment]

(* the last n elements of a sequence, all of it when it is shorter *)
Latest(seq, n) ==
    IF Len(seq) <= n THEN seq ELSE SubSeq(seq, Len(seq) - n + 1, Len(seq))

(* C25: after any sequence of assign_goal calls the history is, in order,  *)
(* the most recent min(k, 64) assignments of the k made with keep_history; *)
(* it never has more than 64 entries and never holds an assignment made    *)
(* without keep_history.                                                   *)
C25_HistoryIsLatestKept ==
    /\ history_ = Latest(Kept, 64)
    /\ Len(history_) <= 64
    /\ \A k \in DOMAIN journal :
          (journal[k].op = "store" /\ ~journal[k].keep_history)
              => journal[k].assignment \notin Range(history_)

(* more than 64 assignments were made with keep_history and one without:   *)
(* the history is full and its oldest entries are gone                     *)
C25_Witness ==
    /\ Len(Kept) > 64
    /\ Len(history_) = 64
    /\ Plain # {}
    /\ history_[1] # Kept[1]
    /\ ~pending[1].busy

(***************************************************************************)
(* C26: every cube the loaded configuration lists under a relay is routed  *)
(* to that relay once the relay manager is constructed, and no operation   *)
(* (a command sent, a status or a message handled, start, stop) changes    *)
(* the routing afterwards.                                                 *)
(***************************************************************************)
Constructed == relays_ # <<>>

C26_RoutingFixed ==
    [][ /\ Constructed => cube_to_relay_' = cube_to_relay_
        /\ Constructed' =>
              \A i \in DOMAIN config_.relays : \A k \in DOMAIN config_.relays[i].cubes :
                  /\ config_.relays[i].cubes[k] \in DOMAIN cube_to_relay_'
                  /\ cube_to_relay_'[config_.relays[i].cubes[k]] = config_.relays[i].id ]_vars

C26_Witness ==
    /\ Constructed
    /\ Len(config_.relays) = 2
    /\ cube_to_relay_ = [c \in {"A01", "A02"} |-> IF c = "A01" THEN "r1" ELSE "r2"]
    /\ stopping_["r1"]
    /\ "A01" \in DOMAIN cubes_
    /\ task.type = "manual_drive"

(***************************************************************************)
(* C27: load_config returns a configuration only for a file that meets     *)
(* every validation rule -- ui.port > 0, at least one relay, a non-empty   *)
(* cubes list in every relay, cube ids of exactly 3 characters, no cube id *)
(* and no relay id twice, bottom_right right of and below top_left -- and  *)
(* a file that breaks a rule gets a config error and no configuration.     *)
(***************************************************************************)
Corner(file, key) ==
    IF contains(file, "field") /\ contains(file.o.field, key)
    THEN [x |-> file.o.field.o[key].o.x.n, y |-> file.o.field.o[key].o.y.n]
    ELSE DefaultField[key]

CubesOf(relay) == relay.o.cubes.a

Rules(file) ==
    /\ contains(file, "ui") /\ contains(file.o.ui, "port")
    /\ is_number_integer(file.o.ui.o.port) /\ file.o.ui.o.port.n > 0
    /\ contains(file, "relays") /\ is_array(file.o.relays) /\ Len(file.o.relays.a) >= 1
    /\ LET relays == file.o.relays.a
       IN /\ \A i \in DOMAIN relays :
                /\ contains(relays[i], "cubes")
                /\ is_array(relays[i].o.cubes)
                /\ CubesOf(relays[i]) # <<>>
                /\ \A k \in DOMAIN CubesOf(relays[i]) :
                      /\ is_string(CubesOf(relays[i])[k])
                      /\ Len(CubesOf(relays[i])[k].s) = 3
          /\ \A i, j \in DOMAIN relays :
                \A k \in DOMAIN CubesOf(relays[i]), l \in DOMAIN CubesOf(relays[j]) :
                    CubesOf(relays[i])[k] = CubesOf(relays[j])[l] => (i = j /\ k = l)
          /\ \A i, j \in DOMAIN relays : relays[i].o.id = relays[j].o.id => i = j
    /\ Corner(file, "bottom_right").x > Corner(file, "top_left").x
    /\ Corner(file, "bottom_right").y > Corner(file, "top_left").y

C27_LoadConfigValidates ==
    config_ # NotLoaded =>
        /\ config_.status = "ok" => Rules(config_file)
        /\ ~Rules(config_file) => config_.status = "config_error"

(***************************************************************************)
(* C28: for every cube c and session s, the states of c that s receives in *)
(* cube_update envelopes are a subsequence of the registry's change log    *)
(* for c, whether the change comes from relay telemetry, set_led or        *)
(* set_goal, and a relay's changes are fanned out in the order its         *)
(* messages arrive.  Every task is one step: what it enqueues to s for c   *)
(* is, in order, among the changes of c the registry records in that step, *)
(* so the sequences that grow step by step keep the subsequence relation.  *)
(***************************************************************************)
Observable(state) ==
    <<state.position, state.has_position, state.battery, state.led, state.goal_id>>

(* the states of cube c in the cube_update envelopes among sent, in order *)
RECURSIVE UpdatesFor(_, _)
UpdatesFor(sent, c) ==
    IF sent = <<>> THEN <<>>
    ELSE (IF Head(sent).type = "cube_update"
          THEN SelectSeq(Head(sent).updates, LAMBDA u : u.cube_id = c)
          ELSE <<>>) \o UpdatesFor(Tail(sent), c)

(* what this step adds to the change log of cube c *)
Recorded(c) ==
    IF /\ c \in DOMAIN cubes_'
       /\ Observable(cubes_'[c]) # Observable(IF c \in DOMAIN cubes_ THEN cubes_[c] ELSE NewCube(c))
    THEN <<cubes_'[c]>>
    ELSE <<>>

C28_UpdatesFollowChangeLog ==
    [][\A s \in SessionIds : \A c \in {"A01", "A02"} :
          \/ UpdatesFor(enqueued'[s], c) = <<>>
          \/ UpdatesFor(enqueued'[s], c) = Recorded(c)]_vars

C28_Witness ==
    /\ task.handler = "relay_on_read"
    /\ "A01" \in DOMAIN cubes_
    /\ cubes_["A01"].goal_id # NoGoal
    /\ cubes_["A01"].led # LedOff
    /\ \E s \in SessionIds : UpdatesFor(enqueued[s], "A01") = <<cubes_["A01"]>>

(***************************************************************************)
(* C29: ingesting a relay response never clears or resets a stored value   *)
(* the response does not carry: a position response changes exactly the    *)
(* position and led sub-fields it carries, a battery response changes      *)
(* only the battery, and no other cube changes.                            *)
(***************************************************************************)
Ingests(r, case) ==
    /\ task'.handler = "relay_on_read" /\ task'.relay = r
    /\ relay_on_read(r, case.frame, FALSE)

Carried(old, carried) ==
    [f \in DOMAIN old |-> IF f \in DOMAIN carried THEN carried[f] ELSE old[f]]

C29_PartialResponseKeeps ==
    [][\A r \in RelayIds, i \in DOMAIN TelemetryCases :
          Ingests(r, TelemetryCases[i]) =>
              LET case == TelemetryCases[i]
                  c == case.cube_id
                  old == IF c \in DOMAIN cubes_ THEN cubes_[c] ELSE NewCube(c)
              IN /\ c \in DOMAIN cubes_'
                 /\ cubes_'[c].position = Carried(old.position, case.position)
                 /\ cubes_'[c].led = Carried(old.led, case.led)
                 /\ cubes_'[c].battery = IF case.battery.some THEN case.battery.v ELSE old.battery
                 /\ cubes_'[c].goal_id = old.goal_id
                 /\ \A o \in DOMAIN cubes_ \ {c} : cubes_'[o] = cubes_[o]]_vars

(***************************************************************************)
(* C30: a relay text frame that does not parse as JSON, or whose handling  *)
(* throws, is dropped: the connection keeps its state (a Connected one     *)
(* stays Connected), its outbound queue and the cube registry are          *)
(* unchanged, no status is emitted, nothing is sent to a session or to the *)
(* relay, and the next read is issued.                                     *)
(***************************************************************************)
Drops(r, frame) ==
    /\ task'.handler = "relay_on_read" /\ task'.relay = r
    /\ relay_on_read(r, frame, TRUE)

C30_BadFrameDropped ==
    [][\A r \in RelayIds, i \in DOMAIN DroppedFrames :
          Drops(r, DroppedFrames[i]) =>
              /\ task'.threw
              /\ state_' = state_
              /\ relay_states_' = relay_states_
              /\ outbound_queue_' = outbound_queue_
              /\ write_in_progress_' = write_in_progress_
              /\ cubes_' = cubes_
              /\ notified' = <<>>
              /\ relay_status_' = relay_status_
              /\ enqueued' = NoOut
              /\ handed' = <<>>
              /\ wrote' = <<>>
              /\ link'[r] = "open"
              /\ ops'[r]["read"] = ops[r]["read"]
              /\ ops'[r]["read"] >= 1]_vars

C30_Witness ==
    /\ task.handler = "relay_on_read"
    /\ task.threw
    /\ task.fault = "throws"
    /\ state_["r1"] = Connected
    /\ outbound_queue_["r1"] # <<>>
    /\ ops["r1"]["read"] = 1


IsPrefix(a, b) == Len(a) <= Len(b) /\ SubSeq(b, 1, Len(a)) = a

(* C31: the envelopes passed to a session are written to its socket in the *)
(* order of the calls and each at most once (what was given to async_write *)
(* is a prefix of what was passed to enqueue), a session never has more    *)
(* than one async_write in flight, and a task passes envelopes only to     *)
(* sessions that are in the session table when it runs.                    *)
C31_SendOrder ==
    [][\A s \in SessionIds :
          /\ IsPrefix(written'[s], passed'[s])
          /\ session_write'[s] <= 1
          /\ (s \notin sessions_ /\ s \notin sessions_') =>
                (passed'[s] = passed[s] /\ enqueued'[s] = <<>>)]_vars

C31_Witness ==
    \E s \in SessionIds :
        /\ Len(written[s]) >= 2
        /\ written[s][1] # written[s][2]
        /\ Len(send_queue_[s]) >= 2
        /\ session_write[s] = 1
        /\ task.handler = "enqueue"

(* C34: for every session id the close handler has run at most once, and   *)
(* it has run only if the open handler has run for that id.                *)
C34_CloseOnceAfterOpen ==
    \A s \in SessionIds :
        /\ session_calls[s].close <= 1
        /\ session_calls[s].close > 0 => session_calls[s].open > 0

(* C35: every message of a session is handed to the gateway after the open *)
(* handler and before the close handler ran for that session, and while    *)
(* the session's subscription exists.                                      *)
C35_MessagesWhileOpen ==
    [][\A s \in SessionIds :
          (task'.handler = "on_read" /\ task'.session = s) =>
              /\ session_calls[s].open > 0
              /\ session_calls[s].close = 0
              /\ s \in DOMAIN subscriptions_]_vars

(* C32: no task of a strand lets an exception escape: whatever URI the     *)
(* loaded configuration gives a relay and whatever frame arrives, the task *)
(* that ran last caught what was thrown in it.                             *)
C32_NoExceptionEscapes == ~task.escaped

(* C33: a task that changes the state of a relay connection makes a status *)
(* callback that reports the new state, every status callback a task makes *)
(* reports the state the connection is in, and after every task the state  *)
(* the RelayManager records for a relay is the state of its connection.    *)
C33_StatusTracksState ==
    [][\A r \in RelayIds :
          /\ state_'[r] # state_[r] =>
                \E i \in DOMAIN notified' :
                    notified'[i].relay = r /\ notified'[i].state = state_'[r]
          /\ \A i \in DOMAIN notified' :
                notified'[i].relay = r => notified'[i].state = state_'[r]
          /\ relay_states_'[r] = state_'[r]]_vars

(* the connect attempts of relay r in progress and its armed timer: the    *)
(* resolve, connect and handshake operations and the timer waits in flight *)
Attempts(r) ==
    ops[r]["resolve"] + ops[r]["connect"] + ops[r]["handshake"] + ops[r]["timer"]

(* C36: a relay connection has at most one connect attempt or armed        *)
(* reconnect timer in progress, and no task enters do_connect (the status  *)
(* "resolving") while the connection is Connecting or Connected.           *)
C36_OneConnectAttempt ==
    [][\A r \in RelayIds :
          /\ Attempts(r)' <= 1
          /\ (\E i \in DOMAIN notified' :
                 notified'[i].relay = r /\ notified'[i].message = "resolving")
                => state_[r] \notin {Connecting, Connected}]_vars

(* C37: between commands, a cube whose registry entry holds a goal id has   *)
(* an active assignment of the orchestrator with that goal id.             *)
C37_RegistryGoalIsActive ==
    \A c \in DOMAIN cubes_ :
        cubes_[c].goal_id # NoGoal =>
            /\ c \in DOMAIN active_goals_
            /\ active_goals_[c].goal_id = cubes_[c].goal_id

WriteOutstanding(r) ==
    \/ ops[r]["write"] > 0
    \/ \E i \in DOMAIN strand[r] : strand[r][i] = AbortTask("write")

(* C39: on every connection write_in_progress_ is true exactly when an     *)
(* asynchronous write is outstanding, so that the send() that finds it     *)
(* false starts a write and the one that finds it true can rely on the     *)
(* outstanding write's completion to continue with the queue.              *)
C39_WriteFlagTracksWrite ==
    \A r \in DOMAIN relays_ : write_in_progress_[r] <=> WriteOutstanding(r)

(* C40: whenever the completion handler of a write removes the front of    *)
(* the outbound queue, the queue is not empty and its front is the message *)
(* that write was given, whatever ran while the write was outstanding, a   *)
(* stop() included.                                                        *)
C40_PopsWrittenFront ==
    [][\A r \in DOMAIN relays_ :
         (task'.handler = "relay_on_write" /\ task'.ok /\ task'.relay = r) =>
            /\ outbound_queue_[r] # <<>>
            /\ <<r, Head(outbound_queue_[r])>> \in writing]_vars

=============================================================================
